---- MODULE Spec2Model ----
(***************************************************************************)
(* Model of the continuous stimulation scheduler of stim_train_generator:  *)
(* ContinuousStimManager (analog_streaming/managers/continuous_manager.py) *)
(* driving the manager-fed StimWorker (analog_streaming/core/stim_worker)  *)
(* on background threads, with one control thread calling the manager's    *)
(* public operations (Spec), and of the standalone heap-driven StimWorker  *)
(* of analog_streaming/workers/stim_worker.py with its DAQ calls (SpecHW). *)
(***************************************************************************)
EXTENDS Integers, Sequences, FiniteSets, TLC

\* ------------------------------------------------------------------ bounds
\* Number of thread slots: start() creates a thread object per call.
MaxThreads == 2
\* Number of public manager calls the control thread makes in one run.
MaxCalls == 4

ThreadIds == 1..MaxThreads

\* ------------------------------------------------------ input value sets
Channels == {0, 1}
Amplitudes == {0, 5}
\* Frequencies a caller may pass to set_frequency (0 and the negative one
\* are the invalid ones; no setter checks its argument).
Frequencies == {-30, 0, 30, 60}
Directions == {"max", "rest", "min"}

\* ------------------------------------------------------------ data model
\* 1 / frequency, kept exact as numerator/denominator (denominator > 0).
Inverse(f) == IF f > 0 THEN <<1, f>> ELSE <<-1, -f>>

StimEvent(c, f, a, p) ==
    [channel |-> c, frequency |-> f, amplitude |-> a, period |-> p]

\* Placeholder for "no event held" in a thread-local variable / observer.
NoEvent == [channel |-> -1, frequency |-> -1, amplitude |-> -1, period |-> <<0, 1>>]

\* RampValues records that the controller may store in the manager.
RampValues(mx, rs, mn) ==
    [current_to_max |-> mx, current_to_rest |-> rs, current_to_min |-> mn]

NoRamp == RampValues(<<>>, <<>>, <<>>)

RampPlans == { RampValues(<<45, 60>>, <<30>>, <<15, 5, 1>>) }

AmplitudeDefault == 0
FrequencyDefault == 30

\* ------------------------------------------------- exact real arithmetic
\* The programs compute with floats; the model computes the same
\* expressions exactly, on fractions <<numerator, denominator>> kept in
\* lowest terms with a positive denominator.
Abs(x) == IF x < 0 THEN -x ELSE x

RECURSIVE GCD(_, _)
GCD(a, b) == IF b = 0 THEN a ELSE GCD(b, a % b)

\* n / d in lowest terms (d # 0).
Rat(n, d) ==
    LET g == GCD(Abs(n), Abs(d))
        sgn == IF d < 0 THEN -1 ELSE 1
    IN  <<(sgn * n) \div g, (sgn * d) \div g>>

RAdd(a, b) == Rat(a[1] * b[2] + b[1] * a[2], a[2] * b[2])
RSub(a, b) == Rat(a[1] * b[2] - b[1] * a[2], a[2] * b[2])
RMul(a, b) == Rat(a[1] * b[1], a[2] * b[2])
\* a / b (b # 0)
RDiv(a, b) == Rat(a[1] * b[2], a[2] * b[1])
\* a < b: by integer part first, then by fractional part.
RLess(a, b) ==
    LET fa == a[1] \div a[2]
        fb == b[1] \div b[2]
    IN  IF fa # fb THEN fa < fb
        ELSE (a[1] % a[2]) * b[2] < (b[1] % b[2]) * a[2]
RLeq(a, b) == ~RLess(b, a)
RMin(a, b) == IF RLess(b, a) THEN b ELSE a
RMax(a, b) == IF RLess(a, b) THEN b ELSE a
Zero == <<0, 1>>
One == <<1, 1>>

\* A generator call that has not been made.
NoRampCall ==
    [gen |-> "none", start_value |-> 1, end_value |-> 1, duration |-> Zero,
     frequency |-> 1, raised |-> FALSE, values |-> <<>>]

\* --------------------------------------- main.py: timeline worker, data
\* A row (timepoint, frequency, amplitude) of the uploaded table / heap.
\* Time is counted in whole seconds.
TlEvent(t, f, a) == [timepoint |-> t, frequency |-> f, amplitude |-> a]
NoTlEvent == TlEvent(-1, -1, -1)

\* The manager of main.py before any upload, with no worker and no thread.
NoTimeline ==
    [data |-> <<>>, has_worker |-> FALSE, has_thread |-> FALSE,
     running |-> FALSE, paused |-> FALSE, events |-> <<>>,
     original_data |-> <<>>, mode |-> "STOP_AT_END",
     start_time |-> -1, pause_start_time |-> 0, total_pause_duration |-> 0,
     perf |-> 0, pc |-> "none", next_event |-> NoTlEvent, wait_time |-> 0,
     sleep_until |-> 0, trig |-> <<>>, ctl_pc |-> "idle", calls |-> 0,
     disturbed |-> FALSE]

\* No electrode checked, nothing emitted.
NoSelection == [checked |-> {}, emitted |-> <<>>]

\* No sleep in progress.
NoSleep ==
    [pc |-> "idle", duration |-> 0, start |-> 0, clock |-> 0, end_time |-> 0,
     sleep_remaining |-> 0, last |-> "none", yielded |-> FALSE]

\* -------------------------------------------------------------- variables
VARIABLES
    current_channel, current_amplitude, current_frequency,
    has_ramp_values,        \* frequency_ramp_values is not None
    frequency_ramp_values,
    staged_events, events,
    are_updates_live,
    m_running,              \* ContinuousStimManager._running
    lock,                   \* owner of ContinuousStimManager._lock
    thread,                 \* ContinuousStimManager._thread (0 = None)
    parameters_changed,     \* ContinuousStimManager._parameters_changed
    w_running,              \* StimWorker.running
    threads,                \* per thread object: position and locals
    zero_all_calls,         \* number of DAQ.zero_all() calls made
    ctl_pc, ctl_op, ctl_dir, \* control thread: position, operation, ramp arg
    calls,                  \* number of public calls made by the control thread
    emitted,                \* pulse last sent with signal_event_updated.emit
    last_ramp_signals,      \* number of ramp-finished notifications emitted
    events_is_staged,       \* self.events and self.staged_events are one list object
    \* --- the standalone StimWorker of analog_streaming/workers/stim_worker.py
    sw_running,             \* StimWorker.running
    scheduled_stim_events,  \* heap of (timepoint, frequency, amplitude, delay)
    uploaded_stims,         \* rows last given to schedule_events
    loop_mode,
    sw_channel, sw_frequency, sw_amplitude,
    sw_pc,                  \* position of the thread executing run()
    sw_event,               \* run()'s locals: the tuple read from the heap
    sw_fault,               \* run() was left by an exception of daq.trigger()
    hw_last, hw_by,         \* last DAQ call and the thread that made it
    sw_ctl_pc,              \* control thread inside stop() / set_parameters()
    sw_calls,               \* number of public calls made on the worker
    sw_sleep,               \* duration last passed to _precise_sleep
    \* --- the ramp calculators (pure functions)
    ramp,                   \* inputs and result of one generator call
    \* --- the pausable timeline worker and its manager (main.py)
    tl,
    \* --- the multi-electrode selector (electrode_selector.py)
    es,
    \* --- the worker's hybrid sleep (core/stim_worker.py, precise_timer.py)
    ps

mgr_vars == <<current_channel, current_amplitude, current_frequency,
              has_ramp_values, frequency_ramp_values, staged_events, events,
              are_updates_live, m_running, lock, thread, parameters_changed>>

vars == <<current_channel, current_amplitude, current_frequency,
          has_ramp_values, frequency_ramp_values, staged_events, events,
          are_updates_live, m_running, lock, thread, parameters_changed,
          w_running, threads, zero_all_calls,
          ctl_pc, ctl_op, ctl_dir, calls,
          emitted, last_ramp_signals, events_is_staged,
          sw_running, scheduled_stim_events, uploaded_stims, loop_mode,
          sw_channel, sw_frequency, sw_amplitude, sw_pc, sw_event, sw_fault,
          hw_last, hw_by, sw_ctl_pc, sw_calls, sw_sleep, ramp, tl, es, ps>>

\* State of the manager, its worker and its threads (all but the DAQ count).
cs_vars == <<current_channel, current_amplitude, current_frequency,
             has_ramp_values, frequency_ramp_values, staged_events, events,
             are_updates_live, m_running, lock, thread, parameters_changed,
             w_running, threads, ctl_pc, ctl_op, ctl_dir, calls,
             emitted, last_ramp_signals, events_is_staged>>

\* What observers of the manager's signals have received, and the identity
\* relation between the manager's two list objects.
obs_vars == <<emitted, last_ramp_signals, events_is_staged>>

\* State of the standalone worker and of the DAQ it drives.
sw_vars == <<sw_running, scheduled_stim_events, uploaded_stims, loop_mode,
             sw_channel, sw_frequency, sw_amplitude, sw_pc, sw_event, sw_fault,
             hw_last, hw_by, sw_ctl_pc, sw_calls, sw_sleep>>

\* The components that the scheduler specifications leave alone.
aux_vars == <<tl, es, ps>>

NoThread == [pc |-> "none", single |-> FALSE, event |-> NoEvent]

Alive(t) == threads[t].pc \notin {"none", "dead", "crashed"}

AliveThreads == {t \in ThreadIds : Alive(t)}

\* self._thread and self._thread.is_alive()
ThreadIsAlive == IF thread = 0 THEN FALSE ELSE Alive(thread)

\* A row of scheduled_stim_events / uploaded_stims.
Stim(t, f, a, d) == [timepoint |-> t, frequency |-> f, amplitude |-> a, delay |-> d]

\* self.channel = None
NoChannel == -1

\* The placeholder row ("foo", "barr", self.amplitude, 1/self.frequency) of
\* __init__; its first two fields are never read as numbers.
InitialStim == Stim(-1, -1, 0, <<1, 2>>)

\* ------------------------------------------------------------------- Init
\* The manager, its worker and the standalone worker after construction.
InitScheduler ==
    /\ current_channel = 0
    /\ current_amplitude = AmplitudeDefault
    /\ current_frequency = FrequencyDefault
    /\ has_ramp_values = FALSE
    /\ frequency_ramp_values = NoRamp
    /\ staged_events = <<>>
    /\ events = <<StimEvent(0, FrequencyDefault, AmplitudeDefault,
                            Inverse(FrequencyDefault))>>
    /\ are_updates_live = FALSE
    /\ m_running = FALSE
    /\ lock = "free"
    /\ thread = 0
    /\ parameters_changed = FALSE
    /\ w_running = FALSE
    /\ threads = [t \in ThreadIds |-> NoThread]
    /\ zero_all_calls = 0
    /\ ctl_pc = "idle"
    /\ ctl_op = "none"
    /\ ctl_dir = "none"
    /\ calls = 0
    /\ emitted = NoEvent
    /\ last_ramp_signals = 0
    /\ events_is_staged = FALSE
    /\ sw_running = FALSE
    /\ scheduled_stim_events = <<InitialStim>>
    /\ uploaded_stims = <<InitialStim>>
    /\ loop_mode = "LOOP_ALL"
    /\ sw_channel = NoChannel
    /\ sw_frequency = 2
    /\ sw_amplitude = 0
    /\ sw_pc = "idle"
    /\ sw_event = InitialStim
    /\ sw_fault = FALSE
    /\ hw_last = "none"
    /\ hw_by = "none"
    /\ sw_ctl_pc = "idle"
    /\ sw_calls = 0
    /\ sw_sleep = Zero
    /\ tl = NoTimeline
    /\ es = NoSelection
    /\ ps = NoSleep

Init == InitScheduler /\ ramp = NoRampCall

\* ------------------------------------------------- control thread: start
\* start(): _running = True; _thread = Thread(target=_run); _thread.start()
start ==
    /\ ctl_pc = "idle"
    /\ calls < MaxCalls
    /\ calls' = calls + 1
    /\ \E t \in ThreadIds :
          /\ ~Alive(t)
          /\ \A u \in ThreadIds : (u < t) => Alive(u)
          /\ m_running' = TRUE
          /\ thread' = t
          /\ threads' = [threads EXCEPT ![t] =
                            [pc |-> "run_while", single |-> FALSE, event |-> NoEvent]]
    /\ UNCHANGED <<current_channel, current_amplitude, current_frequency,
                   has_ramp_values, frequency_ramp_values, staged_events,
                   events, are_updates_live, lock, parameters_changed,
                   w_running, zero_all_calls, ctl_pc, ctl_dir>>
    /\ ctl_op' = "start"
    /\ UNCHANGED <<aux_vars, ramp, sw_vars, obs_vars>>

\* -------------------------------------------------- control thread: stop
\* stop() that also discards the staged list (not what the source does).
StopDiscardsStaged ==
    /\ ctl_pc = "idle"
    /\ calls < MaxCalls
    /\ calls' = calls + 1
    /\ m_running' = FALSE
    /\ ctl_pc' = "stop_worker"
    /\ ctl_op' = "stop"
    /\ staged_events' = <<>>
    /\ UNCHANGED <<current_channel, current_amplitude, current_frequency,
                   has_ramp_values, frequency_ramp_values,
                   events, are_updates_live, lock, thread, parameters_changed,
                   w_running, threads, zero_all_calls, ctl_dir>>
    /\ UNCHANGED <<aux_vars, ramp, sw_vars, obs_vars>>

\* stop(), first statement: self._running = False
stop ==
    /\ ctl_pc = "idle"
    /\ calls < MaxCalls
    /\ calls' = calls + 1
    /\ m_running' = FALSE
    /\ ctl_pc' = "stop_worker"
    /\ ctl_op' = "stop"
    /\ UNCHANGED <<current_channel, current_amplitude, current_frequency,
                   has_ramp_values, frequency_ramp_values, staged_events,
                   events, are_updates_live, lock, thread, parameters_changed,
                   w_running, threads, zero_all_calls, ctl_dir>>
    /\ UNCHANGED <<aux_vars, ramp, sw_vars, obs_vars>>

\* StimWorker.stop(): self.running = False (the zero_all() call is commented
\* out in the source, so no hardware call is made).
WorkerStop ==
    /\ ctl_pc = "stop_worker"
    /\ w_running' = FALSE
    /\ zero_all_calls' = zero_all_calls
    /\ ctl_pc' = "stop_join"
    /\ UNCHANGED <<mgr_vars, threads, ctl_op, ctl_dir, calls>>
    /\ UNCHANGED <<aux_vars, ramp, sw_vars, obs_vars>>

\* stop(), tail: if self._thread and self._thread.is_alive(): join();
\* self._thread = None.  The join blocks while the thread is alive.
StopJoin ==
    /\ ctl_pc = "stop_join"
    /\ ~ThreadIsAlive
    /\ thread' = 0
    /\ ctl_pc' = "idle"
    /\ UNCHANGED ctl_op
    /\ UNCHANGED <<current_channel, current_amplitude, current_frequency,
                   has_ramp_values, frequency_ramp_values, staged_events,
                   events, are_updates_live, m_running, lock,
                   parameters_changed, w_running, threads,
                   zero_all_calls, ctl_dir, calls>>
    /\ UNCHANGED <<aux_vars, ramp, sw_vars, obs_vars>>

\* ----------------------------------------------- control thread: setters
\* _stage_new_stim_event(clear_previous=True): the staged list becomes one
\* event built from the current values.
StageNewStimEvent(c, f, a) == <<StimEvent(c, f, a, Inverse(f))>>

\* Mutant of Setter: the new event is also written to self.events,
\* whatever the update mode.
SetterWritesActive(op, c, f, a) ==
    /\ ctl_pc = "idle"
    /\ calls < MaxCalls
    /\ calls' = calls + 1
    /\ lock = "free"
    /\ current_channel' = c
    /\ current_frequency' = f
    /\ current_amplitude' = a
    /\ parameters_changed' = TRUE
    /\ ctl_op' = op
    /\ IF f = 0
         THEN /\ staged_events' = <<>>
              /\ UNCHANGED <<lock, ctl_pc>>
         ELSE /\ staged_events' = StageNewStimEvent(c, f, a)
              /\ IF are_updates_live
                   THEN /\ lock' = "ctl"
                        /\ ctl_pc' = "apply_lock"
                   ELSE UNCHANGED <<lock, ctl_pc>>
    /\ events' = IF f = 0 THEN events ELSE StageNewStimEvent(c, f, a)
    /\ UNCHANGED <<has_ramp_values, frequency_ramp_values,
                   are_updates_live, m_running, thread, w_running, threads, zero_all_calls, ctl_dir>>
    /\ UNCHANGED <<aux_vars, ramp, sw_vars, obs_vars>>

\* Body shared by set_channel / set_amplitude / set_frequency, executed with
\* the lock held: assign the field, _parameters_changed_callback().  The
\* staged list object is cleared and appended to in place, so a list object
\* shared with self.events would change with it.
\* 1/self.current_frequency raises ZeroDivisionError when the frequency is 0,
\* after the field was assigned, the flag set and the staged list cleared;
\* the with-statement then releases the lock and the caller sees the error.
Setter(op, c, f, a) ==
    /\ ctl_pc = "idle"
    /\ calls < MaxCalls
    /\ calls' = calls + 1
    /\ lock = "free"
    /\ current_channel' = c
    /\ current_frequency' = f
    /\ current_amplitude' = a
    /\ parameters_changed' = TRUE
    /\ ctl_op' = op
    /\ IF f = 0
         THEN /\ staged_events' = <<>>
              /\ UNCHANGED <<lock, ctl_pc>>
         ELSE /\ staged_events' = StageNewStimEvent(c, f, a)
              /\ IF are_updates_live
                   THEN /\ lock' = "ctl"
                        /\ ctl_pc' = "apply_lock"
                   ELSE UNCHANGED <<lock, ctl_pc>>
    /\ events' = IF events_is_staged THEN staged_events' ELSE events
    /\ UNCHANGED <<has_ramp_values, frequency_ramp_values,
                   are_updates_live, m_running, thread, w_running, threads, zero_all_calls, ctl_dir>>
    /\ UNCHANGED <<aux_vars, ramp, sw_vars, obs_vars>>

set_channel ==
    \E c \in Channels :
        Setter("set_channel", c, current_frequency, current_amplitude)

set_amplitude ==
    \E a \in Amplitudes :
        Setter("set_amplitude", current_channel, current_frequency, a)

set_frequency ==
    \E f \in Frequencies :
        Setter("set_frequency", current_channel, f, current_amplitude)

\* ------------------------------- control thread: update mode and applying
\* set_update_mode(flag): assign the flag; if live, call apply_changes().
set_update_mode ==
    /\ ctl_pc = "idle"
    /\ calls < MaxCalls
    /\ calls' = calls + 1
    /\ \E live \in BOOLEAN :
          /\ are_updates_live' = live
          /\ ctl_pc' = IF live THEN "apply_lock" ELSE "idle"
    /\ ctl_op' = "set_update_mode"
    /\ UNCHANGED <<current_channel, current_amplitude, current_frequency,
                   has_ramp_values, frequency_ramp_values, staged_events,
                   events, m_running, lock, thread, parameters_changed,
                   w_running, threads, zero_all_calls, ctl_dir>>
    /\ UNCHANGED <<aux_vars, ramp, sw_vars, obs_vars>>

\* apply_changes() called directly by the caller (the update button).
apply_changes ==
    /\ ctl_pc = "idle"
    /\ calls < MaxCalls
    /\ calls' = calls + 1
    /\ ctl_pc' = "apply_lock"
    /\ ctl_op' = "apply_changes"
    /\ UNCHANGED <<mgr_vars, w_running, threads, zero_all_calls,
                   ctl_dir>>
    /\ UNCHANGED <<aux_vars, ramp, sw_vars, obs_vars>>

\* Mutant of Applied: the staged list is never installed.
AppliedNothing(staged, active) == active

\* The list apply_changes() leaves in self.events:
\* if self.staged_events: self.events = self.staged_events.copy()
Applied(staged, active) == IF staged # <<>> THEN staged ELSE active

\* Mutant of AppliedIsStaged: self.events = self.staged_events (no copy).
AppliedWithoutCopy(staged, was) == IF staged # <<>> THEN TRUE ELSE was

\* Whether self.events is the staged list object after apply_changes():
\* .copy() makes a new list object; with nothing staged nothing is assigned.
AppliedIsStaged(staged, was) == IF staged # <<>> THEN FALSE ELSE was

\* Body of apply_changes() on the control thread: "with self._lock" needs
\* the lock to be free (threading.Lock is not reentrant).
ApplyChangesCtl ==
    /\ ctl_pc = "apply_lock"
    /\ lock = "free"
    /\ events' = Applied(staged_events, events)
    /\ events_is_staged' = AppliedIsStaged(staged_events, events_is_staged)
    /\ ctl_pc' = "idle"
    /\ UNCHANGED ctl_op
    /\ UNCHANGED <<current_channel, current_amplitude, current_frequency,
                   has_ramp_values, frequency_ramp_values, staged_events,
                   are_updates_live, m_running, lock, thread,
                   parameters_changed, w_running, threads,
                   zero_all_calls, ctl_dir, calls>>
    /\ UNCHANGED <<aux_vars, ramp, sw_vars, emitted, last_ramp_signals>>

\* --------------------------------------------------- control thread: ramp
\* The controller stores freshly computed ramp values in the manager.
SetRampValues ==
    /\ ctl_pc = "idle"
    /\ calls < MaxCalls
    /\ calls' = calls + 1
    /\ \E rv \in RampPlans :
          /\ has_ramp_values' = TRUE
          /\ frequency_ramp_values' = rv
    /\ UNCHANGED <<current_channel, current_amplitude, current_frequency,
                   staged_events, events, are_updates_live, m_running, lock,
                   thread, parameters_changed, w_running, threads,
                   zero_all_calls, ctl_pc, ctl_dir>>
    /\ ctl_op' = "set_ramp_values"
    /\ UNCHANGED <<aux_vars, ramp, sw_vars, obs_vars>>

\* Mutant of RampSelect: the plan to min is taken whatever the direction.
RampSelectAlwaysMin(rv, dir) == rv.current_to_min

\* Selection of the ramp list by direction (anything else falls to min).
RampSelect(rv, dir) ==
    IF dir = "max" THEN rv.current_to_max
    ELSE IF dir = "rest" THEN rv.current_to_rest
    ELSE rv.current_to_min

\* The event list a ramp installs: one event per frequency step.
RampEvents(c, a, values) ==
    [i \in 1..Len(values) |-> StimEvent(c, values[i], a, Inverse(values[i]))]

\* ramp_frequency(direction), up to and including self.events.clear(),
\* which empties the list object in place.
\* Without stored ramp values the call returns at once.
ramp_frequency ==
    /\ ctl_pc = "idle"
    /\ calls < MaxCalls
    /\ calls' = calls + 1
    /\ \E dir \in Directions :
          IF ~has_ramp_values
            THEN UNCHANGED <<events, staged_events, ctl_pc, ctl_dir>>
            ELSE /\ events' = <<>>
                 /\ staged_events' = IF events_is_staged THEN <<>>
                                                         ELSE staged_events
                 /\ ctl_pc' = "ramp_assign"
                 /\ ctl_dir' = dir
    /\ ctl_op' = "ramp_frequency"
    /\ UNCHANGED <<current_channel, current_amplitude, current_frequency,
                   has_ramp_values, frequency_ramp_values,
                   are_updates_live, m_running, lock, thread,
                   parameters_changed, w_running, threads,
                   zero_all_calls>>
    /\ UNCHANGED <<aux_vars, ramp, sw_vars, obs_vars>>

\* ramp_frequency(direction), the assignment self.events = [...] of a
\* newly built list object.
RampAssign ==
    /\ ctl_pc = "ramp_assign"
    /\ events_is_staged' = FALSE
    /\ events' = RampEvents(current_channel, current_amplitude,
                            RampSelect(frequency_ramp_values, ctl_dir))
    /\ ctl_pc' = "idle"
    /\ UNCHANGED ctl_op
    /\ ctl_dir' = "none"
    /\ UNCHANGED <<current_channel, current_amplitude, current_frequency,
                   has_ramp_values, frequency_ramp_values, staged_events,
                   are_updates_live, m_running, lock, thread,
                   parameters_changed, w_running, threads,
                   zero_all_calls, calls>>
    /\ UNCHANGED <<aux_vars, ramp, sw_vars, emitted, last_ramp_signals>>

\* ------------------------------------------------------ background thread
SetPc(t, p) == [threads EXCEPT ![t].pc = p]

\* _run(): while self._running
RunWhile(t) ==
    /\ threads[t].pc = "run_while"
    /\ threads' = SetPc(t, IF m_running THEN "run_if" ELSE "dead")
    /\ UNCHANGED <<mgr_vars, w_running, zero_all_calls,
                   ctl_pc, ctl_op, ctl_dir, calls>>
    /\ UNCHANGED <<aux_vars, ramp, sw_vars, obs_vars>>

\* _run(): if self._parameters_changed
RunIf(t) ==
    /\ threads[t].pc = "run_if"
    /\ threads' = SetPc(t, IF parameters_changed THEN "run_apply" ELSE "w_enter")
    /\ UNCHANGED <<mgr_vars, w_running, zero_all_calls,
                   ctl_pc, ctl_op, ctl_dir, calls>>
    /\ UNCHANGED <<aux_vars, ramp, sw_vars, obs_vars>>

\* _run(): self.apply_changes()
RunApply(t) ==
    /\ threads[t].pc = "run_apply"
    /\ lock = "free"
    /\ events' = Applied(staged_events, events)
    /\ events_is_staged' = AppliedIsStaged(staged_events, events_is_staged)
    /\ threads' = SetPc(t, "run_clear")
    /\ UNCHANGED <<current_channel, current_amplitude, current_frequency,
                   has_ramp_values, frequency_ramp_values, staged_events,
                   are_updates_live, m_running, lock, thread,
                   parameters_changed, w_running, zero_all_calls,
                   ctl_pc, ctl_op, ctl_dir, calls>>
    /\ UNCHANGED <<aux_vars, ramp, sw_vars, emitted, last_ramp_signals>>

\* _run(): self._parameters_changed = False
RunClear(t) ==
    /\ threads[t].pc = "run_clear"
    /\ parameters_changed' = FALSE
    /\ threads' = SetPc(t, "w_enter")
    /\ UNCHANGED <<current_channel, current_amplitude, current_frequency,
                   has_ramp_values, frequency_ramp_values, staged_events,
                   events, are_updates_live, m_running, lock, thread,
                   w_running, zero_all_calls, ctl_pc, ctl_op, ctl_dir, calls>>
    /\ UNCHANGED <<aux_vars, ramp, sw_vars, obs_vars>>

\* StimWorker.run(): self.running = True
WorkerEnter(t) ==
    /\ threads[t].pc = "w_enter"
    /\ w_running' = TRUE
    /\ threads' = SetPc(t, "w_while")
    /\ UNCHANGED <<mgr_vars, zero_all_calls, ctl_pc, ctl_op, ctl_dir, calls>>
    /\ UNCHANGED <<aux_vars, ramp, sw_vars, obs_vars>>

\* StimWorker.run(): while self.running
WorkerWhile(t) ==
    /\ threads[t].pc = "w_while"
    /\ threads' = SetPc(t, IF w_running THEN "gne_len" ELSE "run_while")
    /\ UNCHANGED <<mgr_vars, w_running, zero_all_calls,
                   ctl_pc, ctl_op, ctl_dir, calls>>
    /\ UNCHANGED <<aux_vars, ramp, sw_vars, obs_vars>>

\* get_next_event(): if len(self.events) == 1
GetNextEventLen(t) ==
    /\ threads[t].pc = "gne_len"
    /\ threads' = [threads EXCEPT ![t].pc = "gne_get",
                                  ![t].single = (Len(events) = 1)]
    /\ UNCHANGED <<mgr_vars, w_running, zero_all_calls,
                   ctl_pc, ctl_op, ctl_dir, calls>>
    /\ UNCHANGED <<aux_vars, ramp, sw_vars, obs_vars>>

\* Mutant of Remaining: the head is removed whatever the length check said.
RemainingAlwaysPopped(single, list) == Tail(list)

\* What get_next_event() leaves in the list: self.events[0] leaves it as it
\* is, self.events.pop(0) removes the head.
Remaining(single, list) == IF single THEN list ELSE Tail(list)

\* get_next_event(): stim_event = self.events[0]  or  self.events.pop(0),
\* then signal_event_updated.emit(stim_event) and return.  Both raise
\* IndexError on an empty list, which ends the thread.  No other signal is
\* emitted, and pop(0) works on the list object in place.
GetNextEventGet(t) ==
    /\ threads[t].pc = "gne_get"
    /\ IF events = <<>>
         THEN /\ threads' = [threads EXCEPT ![t].pc = "crashed",
                                            ![t].single = FALSE]
              /\ UNCHANGED <<events, staged_events, emitted>>
         ELSE /\ events' = Remaining(threads[t].single, events)
              /\ staged_events' = IF events_is_staged THEN events'
                                                      ELSE staged_events
              /\ emitted' = Head(events)
              /\ threads' = [threads EXCEPT ![t].pc = "exec",
                                            ![t].single = FALSE,
                                            ![t].event = Head(events)]
    /\ last_ramp_signals' = last_ramp_signals
    /\ UNCHANGED <<current_channel, current_amplitude, current_frequency,
                   has_ramp_values, frequency_ramp_values,
                   are_updates_live, m_running, lock, thread,
                   parameters_changed, w_running, zero_all_calls,
                   ctl_pc, ctl_op, ctl_dir, calls>>
    /\ UNCHANGED <<aux_vars, ramp, sw_vars, events_is_staged>>

\* StimWorker.run(): self._execute_stim(event.channel, event.amplitude);
\* the body is "pass" (the DAQ calls are commented out).
ExecuteStim(t) ==
    /\ threads[t].pc = "exec"
    /\ threads' = SetPc(t, "sleep")
    /\ UNCHANGED <<mgr_vars, w_running, zero_all_calls,
                   ctl_pc, ctl_op, ctl_dir, calls>>
    /\ UNCHANGED <<aux_vars, ramp, sw_vars, obs_vars>>

\* StimWorker.run(): self._sleep(max(0, event.period - execution_time))
Sleep(t) ==
    /\ threads[t].pc = "sleep"
    /\ threads' = [threads EXCEPT ![t].pc = "w_while", ![t].event = NoEvent]
    /\ UNCHANGED <<mgr_vars, w_running, zero_all_calls,
                   ctl_pc, ctl_op, ctl_dir, calls>>
    /\ UNCHANGED <<aux_vars, ramp, sw_vars, obs_vars>>

ThreadStep(t) ==
    \/ RunWhile(t)
    \/ RunIf(t)
    \/ RunApply(t)
    \/ RunClear(t)
    \/ WorkerEnter(t)
    \/ WorkerWhile(t)
    \/ GetNextEventLen(t)
    \/ GetNextEventGet(t)
    \/ ExecuteStim(t)
    \/ Sleep(t)

Next ==
    \/ start
    \/ stop
    \/ WorkerStop
    \/ StopJoin
    \/ set_channel
    \/ set_amplitude
    \/ set_frequency
    \/ set_update_mode
    \/ apply_changes
    \/ ApplyChangesCtl
    \/ SetRampValues
    \/ ramp_frequency
    \/ RampAssign
    \/ \E t \in ThreadIds : ThreadStep(t)

Spec == Init /\ [][Next]_vars

\* The steps the control thread takes inside a call it has begun.
CtlContinue == WorkerStop \/ StopJoin \/ ApplyChangesCtl \/ RampAssign

\* Scheduling: every started thread keeps being scheduled, and the control
\* thread goes on with a call it is in; nothing obliges the caller to make
\* another public call.
FairSpec ==
    /\ Spec
    /\ \A t \in ThreadIds : WF_vars(ThreadStep(t))
    /\ WF_vars(CtlContinue)

TypeOK ==
    /\ current_channel \in Channels
    /\ current_amplitude \in Amplitudes
    /\ current_frequency \in Frequencies
    /\ Len(staged_events) <= 1
    /\ lock \in {"free", "ctl"}
    /\ thread \in 0..MaxThreads
    /\ ctl_pc \in {"idle", "apply_lock", "stop_worker", "stop_join", "ramp_assign"}

\* =========================================================================
\* The standalone StimWorker (analog_streaming/workers/stim_worker.py): a
\* thread executes run() on a heap of scheduled rows and drives the DAQ; the
\* control thread calls set_parameters(), set_mode() and stop().
\* =========================================================================
LoopModes == {"NO_LOOP", "LOOP_LAST", "LOOP_ALL"}

\* Parameter sets given to set_parameters(channel, frequency, amplitude).
SwChannels == {1}
SwFrequencies == {2, 30}
\* Seconds that may pass between the timestamp taken before a pulse and the
\* sleep computation after daq.trigger(): the usual sub-millisecond
\* execution, and an execution longer than every pulse period.
Elapsed == {<<1, 1000>>, <<1, 1>>}
SwAmplitudes == {0, 5}

\* Tuple order of the heap rows (Python compares tuples field by field).
StimLess(x, y) ==
    \/ x.timepoint < y.timepoint
    \/ x.timepoint = y.timepoint /\ x.frequency < y.frequency
    \/ x.timepoint = y.timepoint /\ x.frequency = y.frequency
          /\ x.amplitude < y.amplitude

\* heapq.heappush: the heap is kept as the sorted sequence of its rows (the
\* code reads only element 0, the minimum).
HeapPush(h, x) ==
    LET k == Cardinality({i \in 1..Len(h) : ~StimLess(x, h[i])})
    IN  SubSeq(h, 1, k) \o <<x>> \o SubSeq(h, k + 1, Len(h))

RECURSIVE PushAll(_, _)
\* _schedule_all_events: push every uploaded row.
PushAll(h, rows) ==
    IF rows = <<>> THEN h ELSE PushAll(HeapPush(h, Head(rows)), Tail(rows))

\* _handle_end_of_events(): what an empty heap is refilled with.
HandleEndOfEvents(mode, uploaded) ==
    IF mode = "NO_LOOP" THEN <<>>
    ELSE IF mode = "LOOP_LAST" THEN HeapPush(<<>>, uploaded[Len(uploaded)])
    ELSE PushAll(<<>>, uploaded)

\* A thread is given run() as its target (no thread is executing it).
SwSpawn ==
    /\ sw_pc \in {"idle", "done", "raised"}
    /\ sw_calls < MaxCalls
    /\ sw_calls' = sw_calls + 1
    /\ sw_pc' = "run"
    /\ sw_fault' = FALSE
    /\ UNCHANGED <<sw_running, scheduled_stim_events, uploaded_stims, loop_mode,
                   sw_channel, sw_frequency, sw_amplitude, sw_event,
                   hw_last, hw_by, sw_ctl_pc>>
    /\ UNCHANGED <<aux_vars, cs_vars, zero_all_calls, ramp, sw_sleep>>

\* run(): self.running = True
SwRun ==
    /\ sw_pc = "run"
    /\ sw_running' = TRUE
    /\ sw_pc' = "while"
    /\ UNCHANGED <<scheduled_stim_events, uploaded_stims, loop_mode,
                   sw_channel, sw_frequency, sw_amplitude, sw_event, sw_fault,
                   hw_last, hw_by, sw_ctl_pc, sw_calls>>
    /\ UNCHANGED <<aux_vars, cs_vars, zero_all_calls, ramp, sw_sleep>>

\* run(): while self.running
SwWhile ==
    /\ sw_pc = "while"
    /\ sw_pc' = IF sw_running THEN "refill" ELSE "done"
    /\ UNCHANGED <<sw_running, scheduled_stim_events, uploaded_stims, loop_mode,
                   sw_channel, sw_frequency, sw_amplitude, sw_event, sw_fault,
                   hw_last, hw_by, sw_ctl_pc, sw_calls>>
    /\ UNCHANGED <<aux_vars, cs_vars, zero_all_calls, ramp, sw_sleep>>

\* run(): if not scheduled: _handle_end_of_events(); if still empty: break
SwRefill ==
    /\ sw_pc = "refill"
    /\ LET h == IF scheduled_stim_events = <<>>
                  THEN HandleEndOfEvents(loop_mode, uploaded_stims)
                  ELSE scheduled_stim_events
       IN  /\ scheduled_stim_events' = h
           /\ sw_pc' = IF h = <<>> THEN "done" ELSE "read"
    /\ UNCHANGED <<sw_running, uploaded_stims, loop_mode,
                   sw_channel, sw_frequency, sw_amplitude, sw_event, sw_fault,
                   hw_last, hw_by, sw_ctl_pc, sw_calls>>
    /\ UNCHANGED <<aux_vars, cs_vars, zero_all_calls, ramp, sw_sleep>>

\* run(): _, _, amplitude, expected_period = self.scheduled_stim_events[0]
\* (IndexError when the control thread has emptied the heap meanwhile).
SwRead ==
    /\ sw_pc = "read"
    /\ IF scheduled_stim_events = <<>>
         THEN sw_pc' = "raised" /\ UNCHANGED sw_event
         ELSE sw_pc' = "set_channel" /\ sw_event' = scheduled_stim_events[1]
    /\ UNCHANGED <<sw_running, scheduled_stim_events, uploaded_stims, loop_mode,
                   sw_channel, sw_frequency, sw_amplitude, sw_fault,
                   hw_last, hw_by, sw_ctl_pc, sw_calls>>
    /\ UNCHANGED <<aux_vars, cs_vars, zero_all_calls, ramp, sw_sleep>>

\* run(): self.daq.set_channel(self.channel)
SwSetChannel ==
    /\ sw_pc = "set_channel"
    /\ hw_last' = "set_channel"
    /\ hw_by' = "worker"
    /\ sw_pc' = "set_amplitude"
    /\ UNCHANGED <<sw_running, scheduled_stim_events, uploaded_stims, loop_mode,
                   sw_channel, sw_frequency, sw_amplitude, sw_event, sw_fault,
                   sw_ctl_pc, sw_calls>>
    /\ UNCHANGED <<aux_vars, cs_vars, zero_all_calls, ramp, sw_sleep>>

\* run(): self.daq.set_amplitude(amplitude)
SwSetAmplitude ==
    /\ sw_pc = "set_amplitude"
    /\ hw_last' = "set_amplitude"
    /\ hw_by' = "worker"
    /\ sw_pc' = "trigger"
    /\ UNCHANGED <<sw_running, scheduled_stim_events, uploaded_stims, loop_mode,
                   sw_channel, sw_frequency, sw_amplitude, sw_event, sw_fault,
                   sw_ctl_pc, sw_calls>>
    /\ UNCHANGED <<aux_vars, cs_vars, zero_all_calls, ramp, sw_sleep>>

\* run(): self.daq.trigger() - the hardware call succeeds or raises.  There
\* is no try/except/finally around it: the exception leaves run() and ends
\* the thread, and no DAQ call is made on the way out.
SwTrigger ==
    /\ sw_pc = "trigger"
    /\ hw_by' = "worker"
    /\ \E ok \in BOOLEAN :
          IF ok
            THEN /\ hw_last' = "trigger"
                 /\ sw_pc' = "sleep"
                 /\ UNCHANGED sw_fault
            ELSE /\ hw_last' = "trigger"
                 /\ sw_pc' = "raised"
                 /\ sw_fault' = TRUE
    /\ UNCHANGED <<sw_running, scheduled_stim_events, uploaded_stims, loop_mode,
                   sw_channel, sw_frequency, sw_amplitude, sw_event,
                   sw_ctl_pc, sw_calls>>
    /\ UNCHANGED <<aux_vars, cs_vars, zero_all_calls, ramp, sw_sleep>>

\* run(): self._precise_sleep(expected_period - elapsed)
SwSleep ==
    /\ sw_pc = "sleep"
    /\ sw_pc' = "pop"
    /\ \E elapsed \in Elapsed : sw_sleep' = RSub(sw_event.delay, elapsed)
    /\ UNCHANGED <<sw_running, scheduled_stim_events, uploaded_stims, loop_mode,
                   sw_channel, sw_frequency, sw_amplitude, sw_event, sw_fault,
                   hw_last, hw_by, sw_ctl_pc, sw_calls>>
    /\ UNCHANGED <<aux_vars, cs_vars, zero_all_calls, ramp>>

\* run(): heapq.heappop(self.scheduled_stim_events) (IndexError when empty)
SwPop ==
    /\ sw_pc = "pop"
    /\ IF scheduled_stim_events = <<>>
         THEN sw_pc' = "raised" /\ UNCHANGED scheduled_stim_events
         ELSE /\ sw_pc' = "while"
              /\ scheduled_stim_events' = Tail(scheduled_stim_events)
    /\ UNCHANGED <<sw_running, uploaded_stims, loop_mode,
                   sw_channel, sw_frequency, sw_amplitude, sw_event, sw_fault,
                   hw_last, hw_by, sw_ctl_pc, sw_calls>>
    /\ UNCHANGED <<aux_vars, cs_vars, zero_all_calls, ramp, sw_sleep>>

\* set_mode(mode)
SwSetMode ==
    /\ sw_ctl_pc = "idle"
    /\ sw_calls < MaxCalls
    /\ sw_calls' = sw_calls + 1
    /\ \E m \in LoopModes : loop_mode' = m
    /\ UNCHANGED <<sw_running, scheduled_stim_events, uploaded_stims,
                   sw_channel, sw_frequency, sw_amplitude, sw_pc, sw_event,
                   sw_fault, hw_last, hw_by, sw_ctl_pc>>
    /\ UNCHANGED <<aux_vars, cs_vars, zero_all_calls, ramp, sw_sleep>>

\* set_parameters(channel, frequency, amplitude) up to schedule_events'
\* self.scheduled_stim_events = []: the fields are assigned, the one-row
\* table is stored in uploaded_stims and the heap is emptied.
SwSetParameters ==
    /\ sw_ctl_pc = "idle"
    /\ sw_calls < MaxCalls
    /\ sw_calls' = sw_calls + 1
    /\ \E c \in SwChannels, f \in SwFrequencies, a \in SwAmplitudes :
          /\ sw_channel' = c
          /\ sw_frequency' = f
          /\ sw_amplitude' = a
          /\ uploaded_stims' = <<Stim(c, f, a, Inverse(f))>>
    /\ scheduled_stim_events' = <<>>
    /\ sw_ctl_pc' = "schedule_all"
    /\ UNCHANGED <<sw_running, loop_mode, sw_pc, sw_event, sw_fault,
                   hw_last, hw_by>>
    /\ UNCHANGED <<aux_vars, cs_vars, zero_all_calls, ramp, sw_sleep>>

\* schedule_events(): self._schedule_all_events()
SwScheduleAll ==
    /\ sw_ctl_pc = "schedule_all"
    /\ scheduled_stim_events' = PushAll(scheduled_stim_events, uploaded_stims)
    /\ sw_ctl_pc' = "idle"
    /\ UNCHANGED <<sw_running, uploaded_stims, loop_mode,
                   sw_channel, sw_frequency, sw_amplitude, sw_pc, sw_event,
                   sw_fault, hw_last, hw_by, sw_calls>>
    /\ UNCHANGED <<aux_vars, cs_vars, zero_all_calls, ramp, sw_sleep>>

\* stop(): self.running = False
SwStop ==
    /\ sw_ctl_pc = "idle"
    /\ sw_calls < MaxCalls
    /\ sw_calls' = sw_calls + 1
    /\ sw_running' = FALSE
    /\ sw_ctl_pc' = "zero_all"
    /\ UNCHANGED <<scheduled_stim_events, uploaded_stims, loop_mode,
                   sw_channel, sw_frequency, sw_amplitude, sw_pc, sw_event,
                   sw_fault, hw_last, hw_by>>
    /\ UNCHANGED <<aux_vars, cs_vars, zero_all_calls, ramp, sw_sleep>>

\* stop(): self.daq.zero_all(), executed by the thread that called stop()
SwZeroAll ==
    /\ sw_ctl_pc = "zero_all"
    /\ hw_last' = "zero_all"
    /\ hw_by' = "ctl"
    /\ zero_all_calls' = zero_all_calls + 1
    /\ sw_ctl_pc' = "idle"
    /\ UNCHANGED <<sw_running, scheduled_stim_events, uploaded_stims, loop_mode,
                   sw_channel, sw_frequency, sw_amplitude, sw_pc, sw_event,
                   sw_fault, sw_calls>>
    /\ UNCHANGED <<aux_vars, cs_vars, ramp, sw_sleep>>

NextHW ==
    \/ SwSpawn
    \/ SwRun
    \/ SwWhile
    \/ SwRefill
    \/ SwRead
    \/ SwSetChannel
    \/ SwSetAmplitude
    \/ SwTrigger
    \/ SwSleep
    \/ SwPop
    \/ SwSetMode
    \/ SwSetParameters
    \/ SwScheduleAll
    \/ SwStop
    \/ SwZeroAll

SpecHW == Init /\ [][NextHW]_vars

\* =========================================================================
\* The ramp calculators: pure functions, applied to inputs drawn by InitRamp.
\* =========================================================================
\* Start / end frequencies (Hz), and start / end amplitudes of the amplitude
\* ramp, that a caller passes.
RampFrequencies == {1, 2, 3}
\* Ramp durations (s): negative, zero, shorter than a pulse period of the
\* frequencies above, and long enough for several pulses.
RampDurations == {<<-1, 1>>, <<0, 1>>, <<1, 4>>, <<1, 2>>, <<1, 1>>}
\* current_frequency of the amplitude ramp.
PulseFrequencies == {1, 2, 3, 4}

\* The state before a generator is called: its arguments.
InitRamp ==
    /\ InitScheduler
    /\ ramp \in [gen : {"none"}, start_value : RampFrequencies,
                 end_value : RampFrequencies, duration : RampDurations,
                 frequency : PulseFrequencies, raised : {FALSE},
                 values : {<<>>}]

\* What a generator call gives back: the returned sequence, or an exception.
Returned(seq) == [raised |-> FALSE, values |-> seq]
Raised == [raised |-> TRUE, values |-> <<>>]

Reverse(s) == [i \in 1..Len(s) |-> s[Len(s) + 1 - i]]
Front(s) == SubSeq(s, 1, Len(s) - 1)
Last(s) == s[Len(s)]

\* sorted(results): insertion of x after the elements not greater than it.
RECURSIVE RInsert(_, _)
RInsert(s, x) ==
    IF s = <<>> THEN <<x>>
    ELSE IF RLess(x, Head(s)) THEN <<x>> \o s
    ELSE <<Head(s)>> \o RInsert(Tail(s), x)

RECURSIVE RSort(_)
RSort(s) == IF s = <<>> THEN <<>> ELSE RInsert(RSort(Front(s)), Last(s))

\* sorted(results, reverse=...)
Sorted(s, reverse) == IF reverse THEN Reverse(RSort(s)) ELSE RSort(s)

\* ------------------------------------------- app/utils/ramp_calculator.py
\* The while loop of generate_single_frequency_ramp: one pulse per period
\* for as long as the next period still fits in the duration.
RECURSIVE FrequencyLoop(_, _, _, _, _, _)
FrequencyLoop(start_frequency, end_frequency, duration, results, cur_frequency, cur_time) ==
    LET period == RDiv(One, cur_frequency)
        next_time == RAdd(cur_time, period)
    IN  IF RLeq(next_time, duration)
          THEN FrequencyLoop(start_frequency, end_frequency, duration,
                   Append(results, cur_frequency),
                   RAdd(start_frequency,
                        RMul(RSub(end_frequency, start_frequency),
                             RDiv(next_time, duration))),
                   next_time)
          ELSE [results |-> results, current_time |-> cur_time]

\* The ramp with one pulse more than fits in the duration (not what the
\* source does): the pulse that the loop refused is emitted all the same.
UnsortedRampOverrun(start_frequency, end_frequency, duration) ==
    LET loop == FrequencyLoop(start_frequency, end_frequency, duration,
                              <<>>, start_frequency, Zero)
        refused == RAdd(start_frequency,
                        RMul(RSub(end_frequency, start_frequency),
                             RDiv(loop.current_time, duration)))
    IN  Append(Append(loop.results, refused), end_frequency)

\* The ramp whose loop stops only once the next pulse would pass twice the
\* duration (not what the source does).
UnsortedRampPastDuration(start_frequency, end_frequency, duration) ==
    LET loop == FrequencyLoop(start_frequency, end_frequency,
                              RMul(Rat(2, 1), duration),
                              <<>>, start_frequency, Zero)
    IN  Append(loop.results, end_frequency)

\* generate_single_frequency_ramp without the final sort.
UnsortedFrequencyRamp(start_frequency, end_frequency, duration) ==
    LET loop == FrequencyLoop(start_frequency, end_frequency, duration,
                              <<>>, start_frequency, Zero)
        last_frequency == RDiv(One, RSub(duration, loop.current_time))
        fits == /\ RLess(loop.current_time, duration)
                /\ RLess(RMin(start_frequency, end_frequency), last_frequency)
                /\ RLess(last_frequency, RMax(start_frequency, end_frequency))
    IN  Append(IF fits THEN Append(loop.results, last_frequency)
                       ELSE loop.results,
               end_frequency)

\* generate_single_frequency_ramp(start_frequency, end_frequency, duration)
generate_single_frequency_ramp(start_frequency, end_frequency, duration) ==
    IF duration = Zero THEN <<end_frequency>>
    ELSE Sorted(UnsortedFrequencyRamp(start_frequency, end_frequency, duration),
                RLess(end_frequency, start_frequency))

\* The result of a call stored with its arguments.
Call(name, result) ==
    [ramp EXCEPT !.gen = name, !.raised = result.raised,
                 !.values = result.values]

\* The arguments as floats.
StartValue == Rat(ramp.start_value, 1)
EndValue == Rat(ramp.end_value, 1)

AppFrequencyRamp ==
    /\ ramp' = Call("app_frequency",
                    Returned(generate_single_frequency_ramp(
                                 StartValue, EndValue, ramp.duration)))
    /\ UNCHANGED <<aux_vars, cs_vars, zero_all_calls, sw_vars>>

\* ------------------------------ analog_streaming/utils/ramp_calculator.py
\* np.argsort(timepoints) applied to both arrays: the (time, value) points
\* in ascending order of time.
RECURSIVE PointInsert(_, _)
PointInsert(s, p) ==
    IF s = <<>> THEN <<p>>
    ELSE IF RLess(p[1], Head(s)[1]) THEN <<p>> \o s
    ELSE <<Head(s)>> \o PointInsert(Tail(s), p)

RECURSIVE PointSort(_)
PointSort(s) == IF s = <<>> THEN <<>> ELSE PointInsert(PointSort(Front(s)), Last(s))

\* The frequencies of a sequence of (time, frequency) points.
ValuesOf(points) == [i \in 1..Len(points) |-> points[i][2]]

\* _generate_points, after the loop: the end value is appended when the last
\* timepoint lies before the duration (timepoints[-1] of no point raises).
FinalPoint(points, duration, end_value) ==
    IF points = <<>> THEN Raised
    ELSE IF RLess(Last(points)[1], duration)
      THEN Returned(Append(ValuesOf(points), end_value))
      ELSE Returned(ValuesOf(points))

\* _generate_points, the while loop.  remaining_time > self.precision
\* (1e-10) is remaining_time > 0 on these inputs, whose remaining times are
\* 0 or at least 1/1000.  When the next period does not fit, the last point
\* is deleted (np.delete of no point, or timepoints[-1] of none left, raises
\* IndexError) and 1 / (duration - timepoints[-1]) is inserted if it lies
\* strictly between start_value and end_value; otherwise the loop continues
\* with the same current time.
RECURSIVE GeneratePoints(_, _, _, _, _, _)
GeneratePoints(duration, start_value, end_value, points, cur_time, remaining_time) ==
    IF ~RLess(Zero, remaining_time)
      THEN FinalPoint(points, duration, end_value)
      ELSE
        LET slope == RDiv(RSub(end_value, start_value), duration)
            intercept == RSub(end_value, RMul(slope, duration))
            cur_value == RAdd(RMul(slope, cur_time), intercept)
            period == RDiv(One, cur_value)
        IN  IF RLess(duration, RAdd(cur_time, period))
              THEN IF Len(points) < 2 THEN Raised
                   ELSE
                     LET kept == Front(points)
                         time_remaining == RSub(duration, Last(kept)[1])
                         inserted_value == RDiv(One, time_remaining)
                         inserted_time ==
                             RDiv(RSub(inserted_value, start_value),
                                  RDiv(RSub(end_value, start_value), duration))
                     IN  IF ~(RLess(start_value, inserted_value)
                              /\ RLess(inserted_value, end_value))
                           THEN GeneratePoints(duration, start_value, end_value,
                                    kept, cur_time, remaining_time)
                           ELSE FinalPoint(
                                    PointSort(Append(kept,
                                        <<inserted_time, inserted_value>>)),
                                    duration, end_value)
              ELSE GeneratePoints(duration, start_value, end_value,
                       Append(points, <<cur_time, cur_value>>),
                       RAdd(cur_time, period), RSub(remaining_time, period))

\* generate_intermediates(duration, start_value, end_value), with
\* _validate_inputs: the values of the returned (time, value) tuples.
generate_intermediates(duration, start_value, end_value) ==
    IF RLess(duration, Zero) THEN Raised
    ELSE IF RLeq(start_value, Zero) \/ RLeq(end_value, Zero) THEN Raised
    ELSE IF duration = Zero THEN Returned(<<start_value>>)
    ELSE GeneratePoints(duration, start_value, end_value, <<>>, Zero, duration)

AnalogFrequencyRamp ==
    /\ ramp' = Call("analog_frequency",
                    generate_intermediates(ramp.duration, StartValue, EndValue))
    /\ UNCHANGED <<aux_vars, cs_vars, zero_all_calls, sw_vars>>

\* ------------------------------------------------- main.py and old_main.py
\* _calculate_timepoints, the while loop (the same in both files), for a
\* ramp from start_time 0 to end_time: one (time, frequency) row per pulse
\* whose timepoint is not after end_time.
RECURSIVE TimepointLoop(_, _, _, _, _)
TimepointLoop(end_time, start_frequency, end_frequency, results, next_timepoint) ==
    IF RLeq(next_timepoint, end_time)
      THEN LET slope == RDiv(RSub(end_frequency, start_frequency), end_time)
               next_frequency == RAdd(RMul(slope, next_timepoint),
                                      start_frequency)
           IN  TimepointLoop(end_time, start_frequency, end_frequency,
                   Append(results, <<next_timepoint, next_frequency>>),
                   RAdd(next_timepoint, RDiv(One, next_frequency)))
      ELSE results

\* results["frequency"].searchsorted(f, sorter=argsort): the number of rows
\* whose frequency is below f (rows are numbered from 0 in the source).
SearchSorted(results, f) ==
    Cardinality({i \in 1..Len(results) : RLess(results[i][2], f)})

\* recalculate_time: each row's time is the previous row's time plus the
\* previous row's period; the first row keeps its time.
RECURSIVE RecalculateTime(_, _)
RecalculateTime(done, rest) ==
    IF rest = <<>> THEN done
    ELSE RecalculateTime(
             Append(done, <<RAdd(Last(done)[1], RDiv(One, Last(done)[2])),
                            Head(rest)[2]>>),
             Tail(rest))

\* _handle_last_timepoint, from the insertion on: frequency_to_add replaces
\* the frequency of row insert_index (results.loc of a missing row raises
\* KeyError), the replaced frequency follows it, rows up to last_index are
\* kept, times are recalculated and the last frequency is set to the end.
InsertFrequency(results, frequency_to_add, last_index, end_frequency) ==
    LET insert_index == SearchSorted(results, frequency_to_add)
    IN  IF insert_index >= Len(results) THEN Raised
        ELSE
          LET row == results[insert_index + 1]
              rows == SubSeq(results, 1, insert_index)
                      \o <<<<row[1], frequency_to_add>>, <<Zero, row[2]>>>>
                      \o SubSeq(results, insert_index + 2, last_index)
              timed == RecalculateTime(<<Head(rows)>>, Tail(rows))
          IN  Returned([timed EXCEPT ![Len(timed)] =
                            <<Last(timed)[1], end_frequency>>])

\* _calculate_timepoints, tail: (end_time, end_frequency) is appended when
\* the last row's period ends exactly at end_time; the frequencies of the
\* returned tuples.
ResultTuples(handled, end_time, end_frequency) ==
    IF handled.raised THEN Raised
    ELSE LET rows == handled.values
         IN  IF RAdd(Last(rows)[1], RDiv(One, Last(rows)[2])) = end_time
               THEN Returned(Append(ValuesOf(rows), end_frequency))
               ELSE Returned(ValuesOf(rows))

\* main.py _handle_last_timepoint (results.iloc[-1] of no row raises
\* IndexError; 1 / 0.0 is numpy's inf, above every ceiling).
MainHandleLastTimepoint(results, end_time, start_frequency, end_frequency) ==
    IF results = <<>> THEN Raised
    ELSE
      LET time_remaining == RSub(end_time, Last(results)[1])
          frequency_floor == RMin(start_frequency, end_frequency)
          frequency_ceiling == RMax(start_frequency, end_frequency)
          frequency_to_add == RDiv(One, time_remaining)
      IN  IF time_remaining = Zero THEN Returned(results)
          ELSE IF RLess(frequency_ceiling, frequency_to_add)
            THEN Returned(results)
          ELSE IF RLess(frequency_to_add, frequency_floor)
            THEN Returned(results)
          ELSE InsertFrequency(results, frequency_to_add, Len(results),
                               end_frequency)

\* main.py _calculate_timepoints(0, end_time, start_frequency, end_frequency)
MainCalculateTimepoints(end_time, start_frequency, end_frequency) ==
    ResultTuples(
        MainHandleLastTimepoint(
            TimepointLoop(end_time, start_frequency, end_frequency, <<>>,
                          RDiv(One, start_frequency)),
            end_time, start_frequency, end_frequency),
        end_time, end_frequency)

MainFrequencyRamp ==
    /\ ramp' = Call("main_frequency",
                    MainCalculateTimepoints(ramp.duration, StartValue, EndValue))
    /\ UNCHANGED <<aux_vars, cs_vars, zero_all_calls, sw_vars>>

\* np.round(x, 6)
Round6(x) == Rat((2 * 1000000 * x[1] + x[2]) \div (2 * x[2]), 1000000)

\* The 0.1 % by which old_main.py widens the frequency range.
Tolerance == <<1, 1000>>

\* old_main.py _handle_last_timepoint (results.loc of row -1 raises
\* KeyError).  A candidate above the widened ceiling is replaced by
\* 1 / (end_time - time of the row before the last) and the last row is
\* left out; a candidate below the widened floor is only reported.
OldHandleLastTimepoint(results, end_time, start_frequency, end_frequency) ==
    IF results = <<>> THEN Raised
    ELSE
      LET time_remaining == RSub(end_time, Last(results)[1])
          floor == RMin(start_frequency, end_frequency)
          frequency_floor == RSub(floor, RMul(floor, Tolerance))
          ceiling == RMax(start_frequency, end_frequency)
          frequency_ceiling == RAdd(ceiling, RMul(ceiling, Tolerance))
          frequency_to_add == Round6(RDiv(One, time_remaining))
      IN  IF RLeq(time_remaining, Zero) THEN Returned(results)
          ELSE IF RLess(frequency_ceiling, frequency_to_add)
            THEN IF Len(results) < 2 THEN Raised
                 ELSE InsertFrequency(results,
                          RDiv(One, RSub(end_time,
                                         results[Len(results) - 1][1])),
                          Len(results) - 1, end_frequency)
          ELSE InsertFrequency(results, frequency_to_add, Len(results),
                               end_frequency)

\* old_main.py _calculate_timepoints(0, end_time, start_frequency,
\* end_frequency)
OldCalculateTimepoints(end_time, start_frequency, end_frequency) ==
    ResultTuples(
        OldHandleLastTimepoint(
            TimepointLoop(end_time, start_frequency, end_frequency, <<>>,
                          RDiv(One, start_frequency)),
            end_time, start_frequency, end_frequency),
        end_time, end_frequency)

OldFrequencyRamp ==
    /\ ramp' = Call("old_frequency",
                    OldCalculateTimepoints(ramp.duration, StartValue, EndValue))
    /\ UNCHANGED <<aux_vars, cs_vars, zero_all_calls, sw_vars>>

\* ----------------------------- app/utils/ramp_calculator.py: amplitudes
\* int(x): truncation towards zero.
Truncated(x) == IF x[1] >= 0 THEN x[1] \div x[2] ELSE -((-x[1]) \div x[2])

\* np.linspace(first, last, num).tolist() (a negative num raises ValueError).
Linspace(first, last, num) ==
    IF num < 0 THEN Raised
    ELSE Returned([i \in 1..num |->
                      IF i = num /\ num > 1 THEN last
                      ELSE IF num = 1 THEN first
                      ELSE RAdd(first, RMul(Rat(i - 1, 1),
                                            RDiv(RSub(last, first),
                                                 Rat(num - 1, 1))))])

\* generate_single_amplitude_ramp whose two-step case is a linspace too (not
\* what the source does).
AmplitudeRampAllLinspace(start_amplitude, end_amplitude, duration, pulse_frequency) ==
    LET quantity_of_intermediates ==
            Truncated(RDiv(duration, RDiv(One, pulse_frequency)))
    IN  IF quantity_of_intermediates = 1 THEN Returned(<<end_amplitude>>)
        ELSE Linspace(start_amplitude, end_amplitude,
                      quantity_of_intermediates)

\* generate_single_amplitude_ramp(start_amplitude, end_amplitude, duration,
\* current_frequency)
generate_single_amplitude_ramp(start_amplitude, end_amplitude, duration, pulse_frequency) ==
    LET quantity_of_intermediates ==
            Truncated(RDiv(duration, RDiv(One, pulse_frequency)))
    IN  IF quantity_of_intermediates = 1 THEN Returned(<<end_amplitude>>)
        ELSE IF quantity_of_intermediates = 2
          THEN Returned(<<RDiv(RAdd(start_amplitude, end_amplitude),
                               Rat(2, 1)),
                          end_amplitude>>)
        ELSE Linspace(start_amplitude, end_amplitude,
                      quantity_of_intermediates)

AppAmplitudeRamp ==
    /\ ramp' = Call("app_amplitude",
                    generate_single_amplitude_ramp(
                        StartValue, EndValue, ramp.duration,
                        Rat(ramp.frequency, 1)))
    /\ UNCHANGED <<aux_vars, cs_vars, zero_all_calls, sw_vars>>

NextRamp ==
    \/ AppFrequencyRamp
    \/ AnalogFrequencyRamp
    \/ MainFrequencyRamp
    \/ OldFrequencyRamp
    \/ AppAmplitudeRamp

SpecRamp == InitRamp /\ [][NextRamp]_vars

\* C7: when the hardware fails during a trigger, the worker calls
\* zero_all() and its loop terminates: whenever run() has been left by a
\* trigger fault, the last DAQ call is the worker's zero_all().
C7_FaultZeroesOutputs ==
    (sw_pc = "raised" /\ sw_fault) => (hw_last = "zero_all" /\ hw_by = "worker")

\* ----------------------------------------------------------- step shapes
\* A step that completes apply_changes() on the control thread.
CtlApplyStep == ctl_pc = "apply_lock" /\ ctl_pc' = "idle"

\* A step in which a background thread executes _run's apply_changes().
RunApplyStep ==
    \E t \in ThreadIds : threads[t].pc = "run_apply" /\ threads'[t].pc = "run_clear"

\* A step of ramp_frequency that writes self.events (clear or assignment).
RampStep == ctl_pc' = "ramp_assign" \/ ctl_pc = "ramp_assign"

\* A step in which get_next_event reads or pops the head of self.events.
GetStep ==
    \E t \in ThreadIds : threads[t].pc = "gne_get" /\ threads'[t].pc # "gne_get"

\* Positions inside StimWorker.run()'s while loop.
InWorkerLoop(t) == threads[t].pc \in {"w_while", "gne_len", "gne_get", "exec", "sleep"}

\* ------------------------------------------------------------------ claims

\* C1: while the manager is running, the active pulse list (events) is
\* never empty.
C1_EventsNonEmptyWhileRunning == m_running => events # <<>>

\* C2: apply_changes() is atomic with respect to get_next_event(): it never
\* replaces self.events while a get_next_event() call is between its length
\* check and its read of the head, so that call takes both from one list.
C2_ApplyAtomicForGetNextEvent ==
    [][ ((CtlApplyStep \/ RunApplyStep) /\ events' # events)
            => \A t \in ThreadIds : threads[t].pc # "gne_get" ]_vars

\* C3: with live updates on, a setter call (set_frequency, set_amplitude,
\* set_channel) returns, so that the next pulse can carry the new value: the
\* control thread is never inside a setter waiting in apply_changes() for
\* the lock that this same setter call holds.
C3_LiveSetterReturns == ~(ctl_pc = "apply_lock" /\ lock = "ctl")

\* C4: stop() is safe at any point: once stop() has cleared both running
\* flags and waits in join(), the joined thread is not inside the worker
\* loop with StimWorker.running set again (nothing could clear the flag any
\* more, so the thread would keep firing pulses and join() never return).
C4_StopJoinReturns ==
    (ctl_pc = "stop_join" /\ ThreadIsAlive /\ InWorkerLoop(thread)) => ~w_running

\* C5: at most one background worker thread is alive at any time.
C5_AtMostOneThread == Cardinality(AliveThreads) <= 1

\* C6: every stop() makes exactly one zero_all() call on the hardware: the
\* StimWorker.stop() step of stop() raises the number of zero_all() calls by
\* one.
C6_StopZeroesOnce ==
    [][ (ctl_pc = "stop_worker" /\ ctl_pc' = "stop_join")
            => zero_all_calls' = zero_all_calls + 1 ]_vars

\* C8: set_frequency(f) with f <= 0 is rejected and the prior valid state is
\* retained, so the manager's current_frequency is positive in every state.
C8_FrequencyStaysValid == current_frequency > 0

C10_UpdateModeFlushes ==
    [][ /\ (ctl_op = "set_update_mode" /\ CtlApplyStep)
            => (are_updates_live' /\
                (staged_events # <<>> => events' = staged_events))
        /\ (ctl_op' = "set_update_mode" /\ calls' # calls /\ ~are_updates_live')
            => UNCHANGED <<current_channel, current_amplitude,
                           current_frequency, has_ramp_values,
                           frequency_ramp_values, staged_events, events,
                           m_running, lock, thread, parameters_changed,
                           w_running, threads, zero_all_calls, ctl_pc>>
      ]_vars

\* C10 witness: set_update_mode(True) has returned after replacing a
\* different active list by the staged one.
C10_Witness ==
    /\ ctl_op = "set_update_mode"
    /\ ctl_pc = "idle"
    /\ are_updates_live
    /\ staged_events # <<>>
    /\ events = staged_events
    /\ events # <<StimEvent(0, FrequencyDefault, AmplitudeDefault,
                            Inverse(FrequencyDefault))>>

\* A step in which thread t's get_next_event() call returns a pulse.
Returns(t) == threads[t].pc = "gne_get" /\ threads'[t].pc = "exec"

\* C11: get_next_event() on a list of length 1 returns that pulse without
\* removing it, on a longer list it removes and returns the head (so a list
\* p1..pn is returned in order and pn is then repeated), and every call
\* emits exactly the pulse it returns.  Stated for a call during which the
\* list keeps the length class its length check saw.
C11_GetNextEventReturnsHead ==
    [][ \A t \in ThreadIds :
          (Returns(t) /\ threads[t].single = (Len(events) = 1))
            => /\ threads'[t].event = Head(events)
               /\ emitted' = threads'[t].event
               /\ events' = IF Len(events) = 1 THEN events ELSE Tail(events)
      ]_vars

\* C11 witness: a call has popped and returned the first pulse (45 Hz) of
\* the ramp to max, leaving its last pulse (60 Hz) as the whole list.
C11_Witness ==
    \E t \in ThreadIds :
        /\ threads[t].pc = "exec"
        /\ threads[t].event.frequency = 45
        /\ emitted = threads[t].event
        /\ Len(events) = 1
        /\ events[1].frequency = 60

\* C12: ramp_frequency(direction) replaces the active list by exactly the
\* stored plan for that direction: same length and order, the i-th pulse
\* having the plan's i-th frequency f, period 1/f and the current channel
\* and amplitude.
C12_RampInstallsPlan ==
    [][ (ctl_pc = "ramp_assign" /\ ctl_pc' = "idle")
          => LET plan == IF ctl_dir = "max"
                           THEN frequency_ramp_values.current_to_max
                         ELSE IF ctl_dir = "rest"
                           THEN frequency_ramp_values.current_to_rest
                         ELSE frequency_ramp_values.current_to_min
             IN  /\ Len(events') = Len(plan)
                 /\ \A i \in 1..Len(plan) :
                       /\ events'[i].frequency = plan[i]
                       /\ events'[i].period = <<1, plan[i]>>
                       /\ events'[i].channel = current_channel
                       /\ events'[i].amplitude = current_amplitude
      ]_vars

\* C12 witness: ramp_frequency("min") has returned with the three-step plan
\* installed for a channel and amplitude that differ from the defaults.
C12_Witness ==
    /\ ctl_op = "ramp_frequency"
    /\ ctl_pc = "idle"
    /\ Len(events) = 3
    /\ events[1].frequency = 15
    /\ events[3].frequency = 1
    /\ events[1].channel = 1
    /\ events[1].amplitude = 5

\* C13: when a get_next_event() call pops a pulse and exactly one pulse
\* remains, the ramp-completed notification is emitted once (for that last
\* pulse of the plan).
C13_LastRampEventSignalled ==
    [][ \A t \in ThreadIds :
          (Returns(t) /\ Len(events) >= 2 /\ Len(events') = 1)
            => last_ramp_signals' = last_ramp_signals + 1 ]_vars

\* A change has been staged in batched mode while a ramp is in progress and
\* a worker is delivering the ramp's pulses.
StagedDuringRamp ==
    /\ ~are_updates_live
    /\ ctl_pc = "idle"
    /\ ctl_op \in {"set_channel", "set_amplitude", "set_frequency"}
    /\ Len(events) >= 2
    /\ staged_events # <<>>
    /\ w_running
    /\ \E t \in ThreadIds : InWorkerLoop(t)

\* C14: changes staged during a ramp are applied automatically when the
\* ramp finishes: once a change is staged while a ramp is in progress, the
\* active list eventually is the staged single steady-state pulse, without
\* any further call by the user.
C14_StagedAppliedAfterRamp == StagedDuringRamp ~> (events = staged_events)

SetterOps == {"set_channel", "set_amplitude", "set_frequency"}

\* The step in which the control thread executes the body of setter op.
SetterStep(op) == calls' # calls /\ ctl_op' = op

\* C15: the ramp owns the active list until it is exhausted: while the
\* list holds more than one pulse, no setter call (live or batched) and no
\* set_update_mode call replaces or truncates it.
C15_RampOwnsActiveList ==
    [][ ( /\ Len(events) >= 2
          /\ \/ \E op \in SetterOps : SetterStep(op)
             \/ SetterStep("set_update_mode")
             \/ (CtlApplyStep /\ ctl_op \in SetterOps \cup {"set_update_mode"}) )
          => events' = events ]_vars

\* The list is exactly one pulse (c, f, a, 1/f); a period <<n, d>> is 1/f
\* when n * f = d.
IsSnapshot(list, c, f, a) ==
    /\ Len(list) = 1
    /\ list[1].channel = c
    /\ list[1].frequency = f
    /\ list[1].amplitude = a
    /\ list[1].period[1] * f = list[1].period[2]

\* C16: each setter updates only its own field and stages one fresh pulse:
\* after set_amplitude(a) the channel and the frequency are unchanged and
\* the staged list is exactly the one pulse (current_channel,
\* current_frequency, a, 1/current_frequency); likewise for set_frequency
\* and set_channel.
C16_SetterStagesSnapshot ==
    [][ /\ SetterStep("set_amplitude")
            => /\ current_channel' = current_channel
               /\ current_frequency' = current_frequency
               /\ IsSnapshot(staged_events', current_channel,
                             current_frequency, current_amplitude')
        /\ SetterStep("set_frequency")
            => /\ current_channel' = current_channel
               /\ current_amplitude' = current_amplitude
               /\ IsSnapshot(staged_events', current_channel,
                             current_frequency', current_amplitude)
        /\ SetterStep("set_channel")
            => /\ current_frequency' = current_frequency
               /\ current_amplitude' = current_amplitude
               /\ IsSnapshot(staged_events', current_channel',
                             current_frequency, current_amplitude)
      ]_vars

\* period = 1/frequency for an exact fraction <<n, d>>, and period > 0.
PeriodOK(e) == e.period[1] * e.frequency = e.period[2] /\ e.period[1] > 0

\* C17: every pulse in the staged or the active list has a period equal to
\* 1/frequency, and the period is strictly positive.
C17_PeriodPositive ==
    /\ \A i \in 1..Len(staged_events) : PeriodOK(staged_events[i])
    /\ \A i \in 1..Len(events) : PeriodOK(events[i])

\* C18: apply_changes() installs a copy of the staged list: a later setter
\* call does not alter the active list, and a read or pop by the worker
\* does not alter the staged list.
C18_ApplyInstallsCopy ==
    [][ /\ (\E op \in SetterOps : SetterStep(op)) => events' = events
        /\ GetStep => staged_events' = staged_events ]_vars

\* C18 witness: no ramp was ever stored, so the active pulse, which is not
\* the initial one, was installed by apply_changes(); a setter has staged a
\* different pulse since, and the worker has delivered the active one.
C18_Witness ==
    /\ ~has_ramp_values
    /\ ctl_op \in SetterOps
    /\ ctl_pc = "idle"
    /\ Len(events) = 1
    /\ events # <<StimEvent(0, FrequencyDefault, AmplitudeDefault,
                            Inverse(FrequencyDefault))>>
    /\ staged_events # <<>>
    /\ staged_events # events
    /\ emitted = events[1]

\* C19: the manager lock is held only for assignments and list copies: no
\* thread holds it while a worker executes a pulse or sleeps between pulses.
C19_LockFreeWhileWorkerSleeps ==
    \A t \in ThreadIds : threads[t].pc \in {"exec", "sleep"} => lock = "free"

\* C20: every hardware call is executed on the worker thread; no operation
\* of the control thread (stop() included) calls a hardware function.
C20_HardwareOnWorkerOnly == hw_by \in {"none", "worker"}

\* A step of a stop() call: the control thread moves and the call is stop.
StopStep == ctl_pc' # ctl_pc /\ ctl_op' = "stop"

\* C21: stop() called when no worker thread is running is a no-op: each of
\* its steps leaves the manager's parameters, ramp values, update mode,
\* staged list and active list unchanged and starts no thread, the join is
\* skipped (the stored thread is None or not alive, so stop() returns), and
\* a start() that follows sets the running flag and starts a thread at the
\* top of _run.
C21_StopWithoutThreadIsNoop ==
    [][ /\ (AliveThreads = {} /\ StopStep) =>
              /\ UNCHANGED <<current_channel, current_amplitude,
                             current_frequency, has_ramp_values,
                             frequency_ramp_values, are_updates_live,
                             staged_events, events, events_is_staged>>
              /\ AliveThreads' = {}
              /\ ~ThreadIsAlive'
              /\ ~m_running'
              /\ (ctl_pc = "stop_join" => (ctl_pc' = "idle" /\ thread' = 0))
        /\ (AliveThreads = {} /\ ctl_op = "stop" /\ ctl_pc = "idle"
              /\ ctl_op' = "start") =>
              /\ m_running'
              /\ thread' # 0
              /\ threads'[IF thread' = 0 THEN 1 ELSE thread'].pc = "run_while"
              /\ UNCHANGED <<staged_events, events>>
      ]_vars

\* stop() has returned although no thread was ever started, with a staged
\* list that a setter had filled before.
C21_Witness ==
    /\ ctl_op = "stop"
    /\ ctl_pc = "idle"
    /\ \A t \in ThreadIds : threads[t].pc = "none"
    /\ thread = 0
    /\ staged_events # <<>>

\* C22: the sleep duration the worker computes for a pulse is
\* max(0, period - elapsed), so it is never negative, also when triggering
\* took longer than the pulse's period.
C22_SleepNeverNegative == sw_sleep[1] >= 0

\* ---------------------------------------------------- the ramp generators
\* The call returned a sequence (it did not raise).
HasReturned == ramp.gen # "none" /\ ~ramp.raised

\* C23: the frequency ramp generator (generate_single_frequency_ramp,
\* generate_intermediates) called with duration 0 returns exactly the
\* one-element sequence [end frequency], whatever the start and end.
C23_ZeroDurationReturnsEnd ==
    (ramp.gen \in {"app_frequency", "analog_frequency"} /\ ramp.duration = Zero)
        => (~ramp.raised /\ ramp.values = <<EndValue>>)

\* values[i] <= values[i+1] throughout (ascending), or >= (descending).
NonDecreasing(s) == \A i \in 1..(Len(s) - 1) : RLeq(s[i], s[i + 1])
NonIncreasing(s) == \A i \in 1..(Len(s) - 1) : RLeq(s[i + 1], s[i])

\* At least one pulse period of the start frequency fits in the duration.
PeriodFits == RLeq(One, RMul(ramp.duration, StartValue))

\* C24: the sequence returned by the frequency ramp generator
\* (generate_single_frequency_ramp, generate_intermediates) is monotonic in
\* the direction from start to end - non-decreasing when end >= start,
\* non-increasing when end < start - and descending ramps are produced as
\* well: a descending ramp over a duration that holds at least one pulse
\* returns a sequence.
C24_MonotonicInDirection ==
    ramp.gen \in {"app_frequency", "analog_frequency"} =>
        /\ HasReturned =>
              IF ramp.end_value >= ramp.start_value
                THEN NonDecreasing(ramp.values)
                ELSE NonIncreasing(ramp.values)
        /\ (ramp.end_value < ramp.start_value /\ PeriodFits) => HasReturned

\* C25: the last element of the sequence returned by the frequency ramp
\* generator (generate_single_frequency_ramp, main.py's
\* _calculate_timepoints) equals the requested end frequency exactly, for
\* every duration >= 0.
C25_LastIsEnd ==
    (ramp.gen \in {"app_frequency", "main_frequency"} /\ HasReturned
        /\ RLeq(Zero, ramp.duration))
        => (ramp.values # <<>> /\ Last(ramp.values) = EndValue)

\* The sum of 1 / value over a sequence of frequencies.
RECURSIVE SumOfPeriods(_)
SumOfPeriods(s) ==
    IF s = <<>> THEN Zero ELSE RAdd(RDiv(One, Head(s)), SumOfPeriods(Tail(s)))

\* C26: for generate_single_frequency_ramp(start, end, duration) with
\* duration > 0, the sum of the implied periods 1 / value over the returned
\* sequence differs from the duration by at most one pulse period (the
\* period of the closing pulse, 1 / end).
C26_PeriodsSumToDuration ==
    (ramp.gen = "app_frequency" /\ RLess(Zero, ramp.duration)) =>
        LET difference == RSub(SumOfPeriods(ramp.values), ramp.duration)
        IN  /\ RLeq(difference, RDiv(One, EndValue))
            /\ RLeq(RSub(Zero, RDiv(One, EndValue)), difference)

\* A ramp of several pulses with a boundary-correcting pulse among them.
C26_Witness ==
    /\ ramp.gen = "app_frequency"
    /\ ramp.start_value = 3 /\ ramp.end_value = 1
    /\ ramp.duration = <<1, 1>>
    /\ Len(ramp.values) = 3
    /\ SumOfPeriods(ramp.values) = <<37, 21>>

\* C27: every value returned by the frequency ramp generator
\* (generate_single_frequency_ramp, _calculate_timepoints of old_main.py and
\* main.py) lies in [min(start, end), max(start, end)]: a boundary-correcting
\* candidate outside this range is never inserted.
C27_ValuesInRange ==
    (ramp.gen \in {"app_frequency", "old_frequency", "main_frequency"}
        /\ HasReturned) =>
        \A i \in 1..Len(ramp.values) :
            /\ RLeq(RMin(StartValue, EndValue), ramp.values[i])
            /\ RLeq(ramp.values[i], RMax(StartValue, EndValue))

\* The duration is zero, negative, or shorter than one pulse period of the
\* start frequency.
OutOfRangeDuration == RLess(RMul(ramp.duration, StartValue), One)

\* C28: the ramp generator (generate_single_frequency_ramp,
\* generate_intermediates) never raises for an out-of-range duration (zero,
\* negative, or shorter than one pulse period): it returns a sequence.
C28_NeverRaises ==
    (ramp.gen \in {"app_frequency", "analog_frequency"} /\ OutOfRangeDuration)
        => ~ramp.raised

\* floor(duration * current_frequency)
StepCount == (ramp.duration[1] * ramp.frequency) \div ramp.duration[2]

\* C29: generate_single_amplitude_ramp falls back to [end_amplitude]
\* whenever the step count floor(duration * current_frequency) is at most 1,
\* count 0 (duration 0 or shorter than one pulse period) included.
C29_FallsBackToEnd ==
    (ramp.gen = "app_amplitude" /\ RLeq(Zero, ramp.duration) /\ StepCount <= 1)
        => (~ramp.raised /\ ramp.values = <<EndValue>>)

\* Consecutive differences are equal.
EvenlySpaced(s) ==
    \A i \in 1..(Len(s) - 2) : RSub(s[i + 1], s[i]) = RSub(s[i + 2], s[i + 1])

\* n values from the start amplitude to the end amplitude, evenly spaced.
IsLinspace(s, n) ==
    /\ Len(s) = n
    /\ s[1] = StartValue
    /\ s[n] = EndValue
    /\ EvenlySpaced(s)

\* C30 (as stated): when the step count n is at least 2,
\* generate_single_amplitude_ramp returns exactly n linearly spaced values
\* from start to end inclusive: the first is start_amplitude, the last is
\* end_amplitude, and consecutive differences are equal.
C30_LinearlySpaced ==
    (ramp.gen = "app_amplitude" /\ StepCount >= 2)
        => (~ramp.raised /\ IsLinspace(ramp.values, StepCount))

\* C30 (amended): for a step count n of at least 3 the result is n linearly
\* spaced values from start_amplitude to end_amplitude inclusive; for n = 2
\* it is the midpoint of the two amplitudes followed by end_amplitude.
C30_LinearlySpacedFromThree ==
    (ramp.gen = "app_amplitude" /\ StepCount >= 2) =>
        /\ ~ramp.raised
        /\ StepCount >= 3 => IsLinspace(ramp.values, StepCount)
        /\ StepCount = 2 =>
              ramp.values = <<RDiv(RAdd(StartValue, EndValue), Rat(2, 1)),
                              EndValue>>

\* A two-step ramp between different amplitudes has been generated.
C30_Witness ==
    /\ ramp.gen = "app_amplitude"
    /\ StepCount = 2
    /\ ramp.start_value = 1 /\ ramp.end_value = 3
    /\ ramp.values = <<<<2, 1>>, <<3, 1>>>>

\* C31: no manager operation tries to take the manager's non-reentrant lock
\* while its caller already holds it: whenever the control thread holds the
\* lock inside set_channel, set_amplitude, set_frequency, set_update_mode or
\* apply_changes, the call goes on to return and leaves the lock free.
C31_LockHolderReturns == (lock = "ctl") ~> (lock = "free" /\ ctl_pc = "idle")

\* The DAQ calls that make a pulse.
PulseCalls == {"set_channel", "set_amplitude", "trigger"}

\* C32: the zero_all() issued by stop() is the last hardware action of a
\* run: once stop() has cleared the running flag and zeroed the outputs, the
\* worker makes no further set_channel / set_amplitude / trigger call,
\* whatever step of its loop it was at.
C32_ZeroAllIsLast ==
    [][ (hw_last = "zero_all" /\ hw_by = "ctl" /\ ~sw_running)
            => ~(hw_by' = "worker" /\ hw_last' \in PulseCalls) ]_vars

\* =========================================================================
\* The pausable timeline worker of main.py (StimWorker) run on a thread by
\* main.py's ContinuousStimManager, whose callbacks the control thread calls.
\* Every "with self.lock" body is one step: no other step runs inside it.
\* =========================================================================
\* Ticks the clock time.perf_counter() may reach in one run.
MaxTime == 2
\* Pulses one worker may trigger in one run.
MaxPulses == 2

StimModes == {"STOP_AT_END", "LOOP_LAST", "LOOP_ALL"}

\* Tables that upload_stims_callback may store (rows in file order; time in
\* seconds, every row at 1 Hz so that 1 / frequency is a whole second).
Uploads == { <<TlEvent(0, 1, 1), TlEvent(1, 1, 2)>>,
             <<TlEvent(2, 1, 1), TlEvent(0, 1, 2)>> }

\* Everything but the timeline worker and its manager.
tl_frame == <<cs_vars, zero_all_calls, sw_vars, ramp, es, ps>>

\* self.stim_thread.is_alive()
TlAlive == tl.pc \notin {"none", "done", "raised"}

\* StimWorker._time()
TlTime ==
    IF tl.start_time = -1 THEN 0
    ELSE tl.perf - tl.start_time - tl.total_pause_duration

\* time.perf_counter() advances: up to MaxTime, and beyond it for as long as
\* _precise_sleep is polling the clock for its end time.
TlTick ==
    /\ \/ tl.perf < MaxTime
       \/ tl.pc = "sleeping" /\ tl.perf < tl.sleep_until
    /\ tl' = [tl EXCEPT !.perf = tl.perf + 1]
    /\ UNCHANGED tl_frame

\* ---------------------------------------------------- the control thread
TlCall == tl.ctl_pc = "idle" /\ tl.calls < MaxCalls

\* pause_condition.notify_all(): a worker blocked in wait() is woken.
Notified(pc) == IF pc = "waiting" THEN "notified" ELSE pc

\* StimWorker.resume()
Resumed(w) ==
    IF w.paused
      THEN [w EXCEPT !.paused = FALSE,
                     !.total_pause_duration =
                         w.total_pause_duration + (w.perf - w.pause_start_time),
                     !.pc = Notified(w.pc)]
      ELSE w

\* StimWorker.pause()
Paused(w) ==
    IF ~w.paused /\ w.running
      THEN [w EXCEPT !.paused = TRUE, !.pause_start_time = w.perf]
      ELSE w

\* StimWorker.stop()
Stopped(w) ==
    [w EXCEPT !.running = FALSE, !.paused = FALSE, !.events = <<>>,
              !.total_pause_duration = 0, !.start_time = -1,
              !.pc = Notified(w.pc)]

\* StimWorker.schedule_events(data)
Scheduled(w, data) ==
    [w EXCEPT !.original_data = data, !.events = PushAll(<<>>, data)]

\* upload_stims_callback(file_name)
TlUpload ==
    /\ TlCall
    /\ \E d \in Uploads :
          LET m == [tl EXCEPT !.data = d, !.calls = tl.calls + 1,
                              !.disturbed = tl.has_worker]
          IN  tl' = IF tl.has_worker THEN Scheduled(m, d) ELSE m
    /\ UNCHANGED tl_frame

\* stim_callback(True): _begin_stim_thread() makes a new worker and thread
\* when no thread is alive, and resumes the worker otherwise.
TlBegin ==
    /\ TlCall
    /\ tl.data # <<>>
    /\ tl' = IF ~tl.has_thread \/ ~TlAlive
               THEN Scheduled(
                        [NoTimeline EXCEPT !.data = tl.data, !.perf = tl.perf,
                                           !.calls = tl.calls + 1,
                                           !.has_worker = TRUE,
                                           !.has_thread = TRUE, !.pc = "run"],
                        tl.data)
               ELSE Resumed([tl EXCEPT !.calls = tl.calls + 1])
    /\ UNCHANGED tl_frame

\* stim_callback(False): worker.pause()
TlPauseCall ==
    /\ TlCall
    /\ tl.data # <<>>
    /\ tl.has_worker
    /\ tl' = Paused([tl EXCEPT !.calls = tl.calls + 1, !.disturbed = TRUE])
    /\ UNCHANGED tl_frame

\* interrupt_stim_callback(False): worker.resume()
TlResumeCall ==
    /\ TlCall
    /\ tl.has_worker
    /\ tl' = Resumed([tl EXCEPT !.calls = tl.calls + 1])
    /\ UNCHANGED tl_frame

\* interrupt_stim_callback(True): _stop_stim_thread() up to the join.
TlStopCall ==
    /\ TlCall
    /\ tl' = IF tl.has_thread /\ TlAlive
               THEN Stopped([tl EXCEPT !.calls = tl.calls + 1,
                                       !.disturbed = TRUE,
                                       !.ctl_pc = "join"])
               ELSE [tl EXCEPT !.calls = tl.calls + 1]
    /\ UNCHANGED tl_frame

\* _stop_stim_thread(): self.stim_thread.join(); self.stim_thread = None
TlJoin ==
    /\ tl.ctl_pc = "join"
    /\ ~TlAlive
    /\ tl' = [tl EXCEPT !.ctl_pc = "idle", !.has_thread = FALSE]
    /\ UNCHANGED tl_frame

\* stim_mode_callback(mode): worker.set_mode(mode)
TlSetMode ==
    /\ TlCall
    /\ tl.has_worker
    /\ \E m \in StimModes :
          tl' = [tl EXCEPT !.mode = m, !.calls = tl.calls + 1,
                           !.disturbed = tl.disturbed \/ m # "STOP_AT_END"]
    /\ UNCHANGED tl_frame

\* ----------------------------------------------------- the worker thread
\* run(): self.running = True; self.start_time = time.perf_counter()
TlRun ==
    /\ tl.pc = "run"
    /\ tl' = [tl EXCEPT !.running = TRUE, !.start_time = tl.perf,
                        !.pc = "while"]
    /\ UNCHANGED tl_frame

\* run(): while self.running
TlWhile ==
    /\ tl.pc = "while"
    /\ tl' = [tl EXCEPT !.pc = IF tl.running THEN "if_paused" ELSE "done"]
    /\ UNCHANGED tl_frame

\* run(): if self.paused (read without the lock)
TlIfPaused ==
    /\ tl.pc = "if_paused"
    /\ tl' = [tl EXCEPT !.pc = IF tl.paused THEN "wait" ELSE "if_events"]
    /\ UNCHANGED tl_frame

\* run(): with self.lock: self.pause_condition.wait() - the lock is taken
\* and released by wait(), which blocks until a notification.
TlWait ==
    /\ tl.pc = "wait"
    /\ tl' = [tl EXCEPT !.pc = "waiting"]
    /\ UNCHANGED tl_frame

\* run(): wait() returns after a notification; continue
TlWake ==
    /\ tl.pc = "notified"
    /\ tl' = [tl EXCEPT !.pc = "while"]
    /\ UNCHANGED tl_frame

\* _schedule_single_event(last row): timepoint = _time() + 1 / frequency
LastRescheduled(w, now) ==
    LET r == w.original_data[Len(w.original_data)]
    IN  HeapPush(w.events,
                 TlEvent(now + (1 \div r.frequency),
                         r.frequency, r.amplitude))

\* _reschedule_all_events(): every row at _time() + its timepoint
AllRescheduled(w, now) ==
    PushAll(w.events,
            [i \in 1..Len(w.original_data) |->
                TlEvent(now + w.original_data[i].timepoint,
                        w.original_data[i].frequency,
                        w.original_data[i].amplitude)])

\* _handle_end_of_events()
EndOfEvents(w, now) ==
    IF w.mode = "STOP_AT_END" THEN [w EXCEPT !.running = FALSE]
    ELSE IF w.mode = "LOOP_LAST"
      THEN [w EXCEPT !.events = LastRescheduled(w, now)]
    ELSE [w EXCEPT !.events = AllRescheduled(w, now)]

\* run(): if not self.events: _handle_end_of_events(); if still none: break
TlIfEvents ==
    /\ tl.pc = "if_events"
    /\ LET w == IF tl.events = <<>> THEN EndOfEvents(tl, TlTime) ELSE tl
       IN  tl' = [w EXCEPT !.pc = IF w.events = <<>> THEN "done" ELSE "read"]
    /\ UNCHANGED tl_frame

\* The pulse that is due is triggered at once, whatever the clock says (not
\* what the source does).
DueAlways(wait_time) == TRUE

\* run(): if wait_time <= 0
Due(wait_time) == wait_time <= 0

\* run(): next_event_time, frequency, amplitude = self.events[0]
\* (IndexError when stop() has cleared the list meanwhile);
\* current_time = self._time(); wait_time = next_event_time - current_time
TlRead ==
    /\ tl.pc = "read"
    /\ tl' = IF tl.events = <<>>
               THEN [tl EXCEPT !.pc = "raised"]
               ELSE LET wait == tl.events[1].timepoint - TlTime
                    IN  [tl EXCEPT !.next_event = tl.events[1],
                                   !.wait_time = wait,
                                   !.pc = IF Due(wait) THEN "stimulate"
                                          ELSE "sleep"]
    /\ UNCHANGED tl_frame

\* run(): self._stimulate(frequency, amplitude, next_event_time), which
\* reads actual_time = self._time() and calls daq.trigger()
TlStimulate ==
    /\ tl.pc = "stimulate"
    /\ Len(tl.trig) < MaxPulses
    /\ tl' = [tl EXCEPT !.trig = Append(tl.trig,
                                    [event |-> tl.next_event, at |-> TlTime]),
                        !.pc = "pop"]
    /\ UNCHANGED tl_frame

\* run(): heapq.heappop(self.events) (IndexError when the list is empty)
TlPop ==
    /\ tl.pc = "pop"
    /\ tl' = IF tl.events = <<>>
               THEN [tl EXCEPT !.pc = "raised"]
               ELSE [tl EXCEPT !.events = Tail(tl.events), !.pc = "while"]
    /\ UNCHANGED tl_frame

\* _precise_sleep(wait_time): end_time = time.perf_counter() + duration
TlSleep ==
    /\ tl.pc = "sleep"
    /\ tl' = [tl EXCEPT !.sleep_until = tl.perf + tl.wait_time,
                        !.pc = "sleeping"]
    /\ UNCHANGED tl_frame

\* _precise_sleep: while time.perf_counter() < end_time
TlSlept ==
    /\ tl.pc = "sleeping"
    /\ tl.perf >= tl.sleep_until
    /\ tl' = [tl EXCEPT !.pc = "while"]
    /\ UNCHANGED tl_frame

TlWorkerStep ==
    \/ TlRun \/ TlWhile \/ TlIfPaused \/ TlWait \/ TlWake \/ TlIfEvents
    \/ TlRead \/ TlStimulate \/ TlPop \/ TlSleep \/ TlSlept

NextTL ==
    \/ TlTick
    \/ TlUpload
    \/ TlBegin
    \/ TlPauseCall
    \/ TlResumeCall
    \/ TlStopCall
    \/ TlJoin
    \/ TlSetMode
    \/ TlRun
    \/ TlWhile
    \/ TlIfPaused
    \/ TlWait
    \/ TlWake
    \/ TlIfEvents
    \/ TlRead
    \/ TlStimulate
    \/ TlPop
    \/ TlSleep
    \/ TlSlept

SpecTL == Init /\ [][NextTL]_vars

\* The worker thread and the clock are scheduled fairly, and a join that can
\* return does return; the caller is free to make no further call.
FairTL ==
    /\ SpecTL
    /\ WF_vars(TlWorkerStep)
    /\ WF_vars(TlTick)
    /\ WF_vars(TlJoin)

\* C33: in the pausable worker a resume() or stop() issued after pause()
\* always eventually unblocks the worker - a worker blocked on the pause
\* condition while the paused flag is clear leaves the wait, and the join of
\* _stop_stim_thread returns.
C33_ResumeAlwaysUnblocks ==
    /\ (tl.pc = "waiting" /\ ~tl.paused) ~> (tl.pc # "waiting")
    /\ (tl.ctl_pc = "join") ~> (tl.ctl_pc = "idle")

\* C34: pausing freezes pulse consumption - while the paused flag stays set
\* (pause() has returned, resume() has not run) no step of the worker
\* triggers a pulse or removes a scheduled event.
C34_PausedWorkerConsumesNothing ==
    [][ (tl.paused /\ tl.paused' /\ tl.calls' = tl.calls)
            => (tl.trig' = tl.trig /\ Len(tl.events') >= Len(tl.events)) ]_vars

\* The rows a trigger log has triggered, in order.
TriggeredEvents(trig) == [i \in 1..Len(trig) |-> trig[i].event]

\* The worker runs in STOP_AT_END mode and no pause, stop, re-upload or
\* mode change has been issued since it was made.
Undisturbed == tl.has_worker /\ tl.mode = "STOP_AT_END" /\ ~tl.disturbed

\* The events still to be handled: the heap, less the row already triggered
\* and about to be popped.
TlRemaining == IF tl.pc = "pop" THEN Tail(tl.events) ELSE tl.events

\* Triggered rows followed by the remaining ones are the uploaded rows in
\* timepoint order, and no row was triggered before its timepoint.
InTimelineOrder ==
    /\ TriggeredEvents(tl.trig) \o TlRemaining = PushAll(<<>>, tl.original_data)
    /\ \A i \in 1..Len(tl.trig) : tl.trig[i].at >= tl.trig[i].event.timepoint
    /\ \A i \in 1..(Len(tl.trig) - 1) :
          tl.trig[i].event.timepoint <= tl.trig[i + 1].event.timepoint

\* C38: in the timeline worker with mode STOP_AT_END and no pause, stop or
\* re-upload, every scheduled event is triggered exactly once, in
\* non-decreasing order of timepoint and never before its timepoint on the
\* worker's clock, after which the run loop ends by itself.
C38_TimelinePlayedOnce ==
    /\ [](Undisturbed => InTimelineOrder)
    /\ (Undisturbed /\ tl.pc = "run")
          ~> (tl.disturbed \/ (tl.pc = "done" /\ TlRemaining = <<>>))

\* An unsorted upload has been played to its end, the last row after a sleep.
C38_Witness ==
    /\ Undisturbed
    /\ tl.pc = "done"
    /\ tl.original_data = <<TlEvent(2, 1, 1), TlEvent(0, 1, 2)>>
    /\ TriggeredEvents(tl.trig) = <<TlEvent(0, 1, 2), TlEvent(2, 1, 1)>>
    /\ tl.trig[2].at >= 2

\* C35: when a frequency ramp is exhausted (get_next_event leaves its last
\* pulse as the steady-state pulse), the manager's current_frequency is the
\* frequency the ramp settled on, so that the next set_amplitude or
\* set_channel stages a pulse of that frequency.
C35_RampSettlesCurrentFrequency ==
    [][ \A t \in ThreadIds :
          (Returns(t) /\ Len(events) >= 2 /\ Len(events') = 1)
            => current_frequency' = events'[1].frequency ]_vars

\* duration * max(start, end) + 2
LengthBound == RAdd(RMul(ramp.duration, RMax(StartValue, EndValue)), Rat(2, 1))

\* C36: the frequency ramp loop (generate_single_frequency_ramp,
\* _generate_points) ends for every start > 0, end > 0 and duration >= 0,
\* and the sequence it returns has at most duration * max(start, end) + 2
\* elements.
C36_RampLengthBounded ==
    (ramp.gen \in {"app_frequency", "analog_frequency"} /\ RLeq(Zero, ramp.duration))
        => RLeq(Rat(Len(ramp.values), 1), LengthBound)

\* A three-pulse ramp at 3 Hz over one second was returned with its end value.
C36_Witness ==
    /\ ramp.gen = "app_frequency"
    /\ ramp.duration = One
    /\ ramp.start_value = 3
    /\ Len(ramp.values) = 4

\* =========================================================================
\* The hybrid sleep: StimWorker._sleep of core/stim_worker.py, the same loop
\* as PreciseTimer.sleep. time.perf_counter() is counted in ticks of 0.25 ms.
\* =========================================================================
\* Ticks up to which a sleep may be asked to end.
MaxClock == 8

\* 0.001 s: above it the loop yields to the OS.
YieldThreshold == 4
\* 0.0005 s: the length asked of time.sleep.
YieldSleep == 2

\* Durations _sleep is called with, in ticks.
SleepDurations == {-1, 0, 1, 4, 5, 7}

\* How far time.sleep(0.0005) may move the clock: the time asked for or more.
OsSleeps == {YieldSleep, YieldSleep + 1, YieldSleep + 3}

\* Everything but the sleep.
ps_frame == <<cs_vars, zero_all_calls, sw_vars, ramp, tl, es>>

\* The loop leaves one tick before the end time (not what the source does).
LoopTestShort(now, end_time) == now + 1 < end_time

\* while time.perf_counter() < end_time
LoopTest(now, end_time) == now < end_time

\* time.perf_counter() advances while the loop runs.
PsTick ==
    /\ ps.pc \in {"while", "remaining", "idle"}
    /\ ps.clock < MaxClock
    /\ ps' = [ps EXCEPT !.clock = ps.clock + 1]
    /\ UNCHANGED ps_frame

\* _sleep(duration): end_time = time.perf_counter() + duration
PsCall ==
    /\ ps.pc \in {"idle", "returned"}
    /\ \E d \in SleepDurations :
          /\ ps.clock + d <= MaxClock
          /\ ps' = [NoSleep EXCEPT !.clock = ps.clock, !.start = ps.clock,
                                   !.duration = d, !.end_time = ps.clock + d,
                                   !.pc = "while"]
    /\ UNCHANGED ps_frame

\* while time.perf_counter() < end_time: ... else the call returns
PsWhile ==
    /\ ps.pc = "while"
    /\ ps' = [ps EXCEPT !.pc = IF LoopTest(ps.clock, ps.end_time)
                                 THEN "remaining" ELSE "returned"]
    /\ UNCHANGED ps_frame

\* sleep_remaining = end_time - time.perf_counter();
\* if sleep_remaining > 0.001: (yield) else: pass (busy wait)
PsRemaining ==
    /\ ps.pc = "remaining"
    /\ LET sleep_remaining == ps.end_time - ps.clock
       IN  ps' = IF sleep_remaining > YieldThreshold
                   THEN [ps EXCEPT !.sleep_remaining = sleep_remaining,
                                   !.pc = "os_sleep"]
                   ELSE [ps EXCEPT !.sleep_remaining = sleep_remaining,
                                   !.last = "spin", !.pc = "while"]
    /\ UNCHANGED ps_frame

\* time.sleep(0.0005)
PsOsSleep ==
    /\ ps.pc = "os_sleep"
    /\ \E k \in OsSleeps :
          ps' = [ps EXCEPT !.clock = ps.clock + k, !.last = "yield",
                           !.yielded = TRUE, !.pc = "while"]
    /\ UNCHANGED ps_frame

NextPS ==
    \/ PsTick
    \/ PsCall
    \/ PsWhile
    \/ PsRemaining
    \/ PsOsSleep

SpecPS == Init /\ [][NextPS]_vars

\* C37: the hybrid sleep of duration d returns only once the clock has
\* reached start + d, never earlier; it yields to the OS only while more
\* than 1 ms remains and busy-waits otherwise; and with d <= 0 it returns
\* without entering the loop.
C37_HybridSleep ==
    /\ ps.pc = "returned" => ps.clock >= ps.start + ps.duration
    /\ ps.pc = "os_sleep" => ps.sleep_remaining > YieldThreshold
    /\ (ps.pc = "while" /\ ps.last = "spin")
          => ps.sleep_remaining <= YieldThreshold
    /\ (ps.pc # "idle" /\ ps.duration <= 0)
          => (ps.last = "none" /\ ps.pc \in {"while", "returned"})

\* A sleep of 7 ticks has returned after yielding and then busy-waiting.
C37_Witness ==
    /\ ps.pc = "returned"
    /\ ps.duration = 7
    /\ ps.yielded
    /\ ps.last = "spin"
    /\ ps.clock = ps.start + ps.duration

\* =========================================================================
\* MultiElectrodeWidget of ui/basic_components/electrode_selector.py: the
\* checkable electrode buttons and the toggled handler. Qt delivers toggled
\* synchronously, so setChecked inside the handler re-enters the handler
\* before it returns; one click is one step.
\* =========================================================================
\* Clicks made on the grid in one run.
MaxToggles == 3

\* electrode_layout: the channel ids of the buttons in creation order, the
\* order in which findChildren(ElectrodeButton) yields them.
ElectrodeLayout == <<1, 2, 7, 3, 4, 8, 5, 6>>

\* Everything but the selector.
es_frame == <<cs_vars, zero_all_calls, sw_vars, ramp, tl, ps>>

\* signal_electrode_selected.emit(channel), logged with the buttons checked
\* at that moment.
Emit(st, channel) ==
    [st EXCEPT !.emitted = Append(st.emitted,
                                  [channel |-> channel, checked |-> st.checked])]

\* No button is taken as checked (not what the source does).
NoElectrodeChecked(checked) == FALSE

\* _any_electrodes_checked()
AnyElectrodesChecked(checked) == checked # {}

\* _handle_toggle(False): the handler as run for a button that was unchecked.
HandleUnchecked(st) ==
    IF ~AnyElectrodesChecked(st.checked) THEN Emit(st, -1) ELSE st

\* button.setChecked(False): a checked button is unchecked and its toggled
\* signal runs the handler; an unchecked button is left alone, silently.
SetUnchecked(st, button) ==
    IF button \in st.checked
      THEN HandleUnchecked([st EXCEPT !.checked = st.checked \ {button}])
      ELSE st

\* _deselect_all_but_one(selected_button), from the i-th child on.
RECURSIVE DeselectAllButOne(_, _, _)
DeselectAllButOne(st, selected_button, i) ==
    IF i > Len(ElectrodeLayout) THEN st
    ELSE DeselectAllButOne(
             IF ElectrodeLayout[i] # selected_button
               THEN SetUnchecked(st, ElectrodeLayout[i]) ELSE st,
             selected_button, i + 1)

\* _handle_toggle(checked) with sender() = sender
HandleToggle(st, checked, sender) ==
    IF checked THEN Emit(DeselectAllButOne(st, sender, 1), sender)
    ELSE HandleUnchecked(st)

\* The user clicks a button: Qt flips its checked state and emits toggled.
EsClick ==
    /\ Len(es.emitted) < MaxToggles
    /\ \E i \in 1..Len(ElectrodeLayout) :
          LET button == ElectrodeLayout[i]
              checked == button \notin es.checked
          IN  es' = HandleToggle(
                        [es EXCEPT !.checked =
                            IF checked THEN es.checked \cup {button}
                            ELSE es.checked \ {button}],
                        checked, button)
    /\ UNCHANGED es_frame

NextES == EsClick

SpecES == Init /\ [][NextES]_vars

\* C39: in the multi-electrode selector at most one electrode is checked
\* after any sequence of toggles, and the deselection flag -1 is emitted only
\* when a toggle leaves no electrode checked, never while switching from one
\* electrode to another.
C39_SingleSelection ==
    /\ Cardinality(es.checked) <= 1
    /\ \A i \in 1..Len(es.emitted) :
          es.emitted[i].channel = -1 => es.emitted[i].checked = {}
    /\ \A i \in 1..Len(es.emitted) :
          es.emitted[i].channel # -1
              => es.emitted[i].checked = {es.emitted[i].channel}

\* Electrode 1 was selected, then electrode 2 instead, then 2 was unchecked.
C39_Witness ==
    /\ Len(es.emitted) = 3
    /\ es.emitted[1].channel = 1
    /\ es.emitted[2].channel = 2
    /\ es.emitted[3].channel = -1
    /\ es.checked = {}

====
